---- MODULE Spec2Model ----
(***************************************************************************)
(* Admission assessment pipeline of Admissions Genie:                      *)
(*   PDPMClassifier -> ReimbursementCalculator -> CostEstimator ->         *)
(*   ScoringEngine, and the new_admission handler that composes them.      *)
(*                                                                         *)
(* Numbers.  The Python code computes on floats.  The model computes on    *)
(* exact rationals [n |-> numerator, d |-> denominator > 0] kept in lowest *)
(* terms; IEEE-754 rounding of the last bit is not modelled.               *)
(*                                                                         *)
(* Python values.  A dict key that is missing is "absent", a key bound to  *)
(* None is "null"; a raised exception is the record [exc |-> <name>], a    *)
(* returned value v is [exc |-> "none", val |-> v].                        *)
(***************************************************************************)
EXTENDS Integers, Sequences, FiniteSets, TLC

VARIABLES
    tables,   \* class-level lookup tables and Config defaults (shared by all requests)
    engine,   \* the ScoringEngine object: self.weights and self.thresholds
    call,     \* the pipeline call under examination: operation name and arguments
    ret,      \* what that call returned or raised
    aux,      \* what a second call returned (a call between two scoring calls,
              \* get_recommendation, a scenario's revenue, classify_nursing_group)
    prev,     \* the preceding scoring call and its result, or a scenario's recommendation
    reqs,     \* new_admission requests in flight: position and intermediate results
    db,       \* the database: the rows of the rates, admissions and users tables
    files,    \* the file storage: the keys of the files it holds
    session,  \* the Flask session of the browser
    now       \* the wall clock, in minutes

vars == <<tables, engine, call, ret, aux, prev, reqs, db, files, session, now>>

----------------------------------------------------------------------------
(* Exact rational arithmetic                                               *)

Abs(x) == IF x < 0 THEN -x ELSE x

RECURSIVE GCD(_, _)
GCD(a, b) == IF b = 0 THEN a ELSE GCD(b, a % b)

Rat(n, d) ==
    LET g == GCD(Abs(n), Abs(d))
        s == IF d < 0 THEN -1 ELSE 1
    IN  [n |-> s * (n \div g), d |-> s * (d \div g)]

RInt(k) == [n |-> k, d |-> 1]
RAdd(a, b) == LET g == GCD(a.d, b.d)
              IN  Rat(a.n * (b.d \div g) + b.n * (a.d \div g), (a.d \div g) * b.d)
RNeg(a) == [n |-> -a.n, d |-> a.d]
RSub(a, b) == RAdd(a, RNeg(b))
RMul(a, b) == LET x == Rat(a.n, b.d)
                  y == Rat(b.n, a.d)
              IN  [n |-> x.n * y.n, d |-> x.d * y.d]
RDiv(a, b) == RMul(a, Rat(b.d, b.n))
\* q / r for 0 < r: floor and remainder, used to compare without large products
RECURSIVE PosLe(_, _, _, _)
PosLe(a, b, c, e) ==  \* a/b <= c/e, for a, c >= 0 and b, e > 0
    LET qa == a \div b
        qc == c \div e
        ra == a % b
        rc == c % e
    IN  IF qa # qc THEN qa < qc
        ELSE IF ra = 0 THEN TRUE
        ELSE IF rc = 0 THEN FALSE
        ELSE PosLe(e, rc, b, ra)
RLe(a, b) ==
    IF a.n < 0 /\ b.n >= 0 THEN TRUE
    ELSE IF a.n >= 0 /\ b.n < 0 THEN FALSE
    ELSE IF a.n >= 0 THEN PosLe(a.n, a.d, b.n, b.d)
    ELSE PosLe(-b.n, b.d, -a.n, a.d)
RLt(a, b) == ~RLe(b, a)
RMax(a, b) == IF RLt(a, b) THEN b ELSE a   \* Python max(a, b): first maximal argument
RMin(a, b) == IF RLt(b, a) THEN b ELSE a   \* Python min(a, b): first minimal argument

----------------------------------------------------------------------------
(* Python results                                                          *)

Return(v) == [exc |-> "none", val |-> v]
Raise(e) == [exc |-> e]
NotCalled == [exc |-> "not_called"]
NotConstructed == [constructed |-> FALSE]
Returned(r) == r.exc = "none"
Raised(r) == r.exc \notin {"none", "not_called"}

Absent == [kind |-> "absent"]
Null == [kind |-> "null"]
Val(v) == [kind |-> "value", v |-> v]
\* dict.get(key, default): the default only for a missing key, None passes through
Get(field, default) == IF field.kind = "absent" THEN Val(default) ELSE field

\* the rates table before any INSERT; ids come from an AUTOINCREMENT sequence
EmptyDb ==
    [rates |-> {}, rate_seq |-> 0, admissions |-> {}, admission_seq |-> 0, users |-> {}]

\* a session without keys
EmptySession == <<>>

----------------------------------------------------------------------------
(* Shared lookup tables and configuration defaults                         *)

None == "<None>"

\* ReimbursementCalculator.VPD_SCHEDULE, factors in hundredths
VPD_SCHEDULE_0 ==
    [day \in 1..20 |->
        IF day <= 3 THEN 100
        ELSE IF day <= 6 THEN 98
        ELSE IF day <= 10 THEN 95
        ELSE IF day <= 14 THEN 92
        ELSE IF day <= 18 THEN 88
        ELSE 85]

\* PDPMClassifier.CLINICAL_CATEGORIES, in the dict's insertion order
CLINICAL_CATEGORIES_0 ==
    << <<"major_joint", <<<<"Z", "9", "6", ".", "6">>, <<"M", "9", "6", ".", "6">>, <<"Z", "4", "7", ".", "1">>, <<"T", "8", "4">>>> >>,
       <<"non_surgical_ortho", <<<<"M", "1", "6">>, <<"M", "1", "7">>, <<"M", "1", "9">>, <<"M", "2", "5">>, <<"M", "5", "4">>, <<"S", "7", "2">>, <<"S", "8", "2">>>> >>,
       <<"acute_infections", <<<<"A", "4", "0">>, <<"A", "4", "1">>, <<"J", "1", "5">>, <<"J", "1", "8">>, <<"L", "0", "3">>, <<"N", "3", "9", ".", "0">>>> >>,
       <<"cardiovascular", <<<<"I", "5", "0">>, <<"I", "4", "8">>, <<"I", "2", "1">>, <<"I", "6", "3">>, <<"I", "2", "5">>, <<"I", "1", "0">>>> >>,
       <<"pulmonary", <<<<"J", "4", "4">>, <<"J", "9", "6">>, <<"J", "4", "5">>, <<"J", "8", "1">>>> >>,
       <<"surgery_neuro", <<<<"I", "6", "0">>, <<"I", "6", "1">>, <<"I", "6", "2">>, <<"G", "8", "1">>, <<"G", "8", "3">>>> >> >>

\* CostEstimator.DENIAL_RISK, probabilities in hundredths
DENIAL_RISK_0 ==
    [medicare_ffs   |-> [granted |-> 2, pending |-> 15, unknown |-> 25],
     ma_commercial  |-> [granted |-> 5, pending |-> 20, unknown |-> 35],
     medicaid_wi    |-> [granted |-> 3, pending |-> 10, unknown |-> 15],
     family_care_wi |-> [granted |-> 3, pending |-> 12, unknown |-> 18]]

\* Config.SCORE_THRESHOLDS
SCORE_THRESHOLDS_0 == [accept |-> 70, defer |-> 40]

\* Config.DEFAULT_BUSINESS_WEIGHTS, in tenths
DEFAULT_BUSINESS_WEIGHTS_0 ==
    [margin |-> 6, census |-> 2, denial_risk |-> 3, complexity |-> 2, readmit_risk |-> 1]

Tables0 ==
    [VPD_SCHEDULE |-> VPD_SCHEDULE_0,
     CLINICAL_CATEGORIES |-> CLINICAL_CATEGORIES_0,
     DENIAL_RISK |-> DENIAL_RISK_0,
     SCORE_THRESHOLDS |-> SCORE_THRESHOLDS_0,
     DEFAULT_BUSINESS_WEIGHTS |-> DEFAULT_BUSINESS_WEIGHTS_0]

\* PDPMClassifier.PT_OT_CATEGORIES, in insertion order
PT_OT_CATEGORIES ==
    << <<"TA", {"major_joint"}>>,
       <<"TB", {"non_surgical_ortho"}>>,
       <<"TC", {"acute_infections", "surgery_neuro"}>>,
       <<"TD", {"cardiovascular", "pulmonary"}>>,
       <<"TE", {}>> >>

\* PDPMClassifier.NURSING_CATEGORIES, in insertion order
NURSING_CATEGORIES ==
    << <<"ES1", {}>>,
       <<"ES2", {}>>,
       <<"HBS1", {"surgery_neuro", "major_joint"}>>,
       <<"HBS2", {"cardiovascular", "pulmonary"}>>,
       <<"LBS1", {"non_surgical_ortho"}>>,
       <<"LBS2", {"acute_infections"}>> >>

\* PDPMClassifier.SLP_CONDITIONS
SLP_CONDITIONS ==
    << <<"R", "1", "3">>, <<"R", "4", "7">>, <<"R", "4", "8">>, <<"F", "8", "0">>, <<"I", "6", "9">> >>

\* PDPMClassifier.NTA_SCORES
NTA_SCORES ==
    [pneumonia |-> 5, septicemia |-> 6, diabetes |-> 3, copd |-> 4, uti |-> 4, chf |-> 5,
     dialysis |-> 8, hiv |-> 6, multiple_sclerosis |-> 6, parkinsons |-> 5, hemiplegia |-> 6,
     aphasia |-> 5, malnutrition |-> 4, depression |-> 3, bipolar |-> 4, schizophrenia |-> 4]

\* comorbidity_mapping of calculate_nta_score: ICD-10 prefix -> condition
comorbidity_mapping ==
    << <<<<"J", "1", "5">>, "pneumonia">>,
       <<<<"J", "1", "8">>, "pneumonia">>,
       <<<<"A", "4", "0">>, "septicemia">>,
       <<<<"A", "4", "1">>, "septicemia">>,
       <<<<"E", "1", "1">>, "diabetes">>,
       <<<<"E", "1", "0">>, "diabetes">>,
       <<<<"J", "4", "4">>, "copd">>,
       <<<<"N", "3", "9", ".", "0">>, "uti">>,
       <<<<"I", "5", "0">>, "chf">>,
       <<<<"B", "2", "0">>, "hiv">>,
       <<<<"G", "3", "5">>, "multiple_sclerosis">>,
       <<<<"G", "2", "0">>, "parkinsons">>,
       <<<<"G", "8", "1">>, "hemiplegia">>,
       <<<<"R", "4", "7", ".", "0", "1">>, "aphasia">>,
       <<<<"E", "4", "6">>, "malnutrition">>,
       <<<<"F", "3", "2">>, "depression">>,
       <<<<"F", "3", "1">>, "bipolar">>,
       <<<<"F", "2", "0">>, "schizophrenia">> >>

----------------------------------------------------------------------------
(* PDPMClassifier                                                          *)

\* str.startswith
StartsWith(code, prefix) ==
    /\ Len(prefix) <= Len(code)
    /\ SubSeq(code, 1, Len(prefix)) = prefix

\* the two inner loops of _get_clinical_category for one category
RECURSIVE ScanCodes(_, _, _)
ScanCodes(code_prefixes, icd_codes, j) ==
    IF j > Len(icd_codes) THEN "nomatch"
    ELSE IF icd_codes[j].kind = "null" /\ Len(code_prefixes) > 0 THEN "raise"
    ELSE IF icd_codes[j].kind = "null" THEN ScanCodes(code_prefixes, icd_codes, j + 1)
    ELSE IF \E p \in 1..Len(code_prefixes) : StartsWith(icd_codes[j].v, code_prefixes[p])
         THEN "match"
    ELSE ScanCodes(code_prefixes, icd_codes, j + 1)

RECURSIVE ScanCategories(_, _, _)
ScanCategories(categories, icd_codes, i) ==
    IF i > Len(categories) THEN Return(None)
    ELSE LET s == ScanCodes(categories[i][2], icd_codes, 1)
         IN  IF s = "raise" THEN Raise("AttributeError")
             ELSE IF s = "match" THEN Return(categories[i][1])
             ELSE ScanCategories(categories, icd_codes, i + 1)

\* a scan with the loops exchanged: the first code that matches any category decides
RECURSIVE ScanCodesFirst(_, _, _)
ScanCodesFirst(categories, icd_codes, j) ==
    IF j > Len(icd_codes) THEN Return(None)
    ELSE IF icd_codes[j].kind = "null" THEN Raise("AttributeError")
    ELSE LET hit == ScanCategories(categories, <<icd_codes[j]>>, 1)
         IN  IF hit.val # None THEN hit ELSE ScanCodesFirst(categories, icd_codes, j + 1)

get_clinical_category_code_first(t, icd_codes) ==
    ScanCodesFirst(t.CLINICAL_CATEGORIES, icd_codes, 1)

get_clinical_category(t, icd_codes) == ScanCategories(t.CLINICAL_CATEGORIES, icd_codes, 1)

\* first group, in table order, whose category list holds the category
RECURSIVE FirstGroup(_, _, _, _)
FirstGroup(table, category, i, default) ==
    IF i > Len(table) THEN default
    ELSE IF category \in table[i][2] THEN table[i][1]
    ELSE FirstGroup(table, category, i + 1, default)

\* [primary_diagnosis] + comorbidities
AllCodes(primary_diagnosis, comorbidities) ==
    IF comorbidities.kind = "null" THEN Raise("TypeError")
    ELSE Return(<<primary_diagnosis>> \o [k \in 1..Len(comorbidities.v) |-> Val(comorbidities.v[k])])

classify_pt_ot_group(t, primary_diagnosis, comorbidities) ==
    LET all_codes == AllCodes(primary_diagnosis, comorbidities)
    IN  IF Raised(all_codes) THEN all_codes
        ELSE LET clinical_category == get_clinical_category(t, all_codes.val)
             IN  IF Raised(clinical_category) THEN clinical_category
                 ELSE LET pt_group == FirstGroup(PT_OT_CATEGORIES, clinical_category.val, 1, "TE")
                      IN  Return([pt_group |-> pt_group,
                                  ot_group |-> pt_group,
                                  clinical_category |->
                                      IF clinical_category.val = None THEN "other"
                                      ELSE clinical_category.val])

ADL_ES1_THRESHOLD == 15

\* classify_nursing_group that consults the category table before the services
classify_nursing_group_table_first(t, primary_diagnosis, comorbidities, adl_score, has_extensive_services) ==
    LET all_codes == AllCodes(primary_diagnosis, comorbidities)
    IN  IF Raised(all_codes) THEN all_codes
        ELSE LET clinical_category == get_clinical_category(t, all_codes.val)
             IN  IF Raised(clinical_category) THEN clinical_category
                 ELSE IF clinical_category.val # None
                 THEN Return(FirstGroup(NURSING_CATEGORIES, clinical_category.val, 1, "LBS2"))
                 ELSE IF has_extensive_services
                      THEN Return(IF adl_score.kind = "value" /\ adl_score.v # 0
                                      /\ adl_score.v >= ADL_ES1_THRESHOLD
                                  THEN "ES1" ELSE "ES2")
                 ELSE Return("LBS2")

classify_nursing_group(t, primary_diagnosis, comorbidities, adl_score, has_extensive_services) ==
    LET all_codes == AllCodes(primary_diagnosis, comorbidities)
    IN  IF Raised(all_codes) THEN all_codes
        ELSE LET clinical_category == get_clinical_category(t, all_codes.val)
             IN  IF Raised(clinical_category) THEN clinical_category
                 ELSE IF has_extensive_services
                      THEN Return(IF adl_score.kind = "value" /\ adl_score.v # 0
                                      /\ adl_score.v >= ADL_ES1_THRESHOLD
                                  THEN "ES1" ELSE "ES2")
                 ELSE Return(FirstGroup(NURSING_CATEGORIES, clinical_category.val, 1, "LBS2"))

check_slp_comorbidity(comorbidities) ==
    \E k \in 1..Len(comorbidities) :
        \E p \in 1..Len(SLP_CONDITIONS) : StartsWith(comorbidities[k], SLP_CONDITIONS[p])

\* the inner loop of calculate_nta_score: points one code adds
RECURSIVE CodePoints(_, _)
CodePoints(code, p) ==
    IF p > Len(comorbidity_mapping) THEN 0
    ELSE (IF StartsWith(code, comorbidity_mapping[p][1])
          THEN NTA_SCORES[comorbidity_mapping[p][2]] ELSE 0)
         + CodePoints(code, p + 1)

RECURSIVE ScoreComorbidities(_, _)
ScoreComorbidities(comorbidities, k) ==
    IF k > Len(comorbidities) THEN 0
    ELSE CodePoints(comorbidities[k], 1) + ScoreComorbidities(comorbidities, k + 1)

NTA_CAP == 12
DIALYSIS_NTA_POINTS == 8

Min(a, b) == IF b < a THEN b ELSE a
Max(a, b) == IF b > a THEN b ELSE a

\* calculate_nta_score returning the raw sum: the cap at 12 forgotten
calculate_nta_score_uncapped(comorbidities, special_services) ==
    ScoreComorbidities(comorbidities, 1)
    + (IF special_services.kind = "value" /\ "dialysis" \in special_services.v
       THEN DIALYSIS_NTA_POINTS ELSE 0)

\* special_services: Null (None), or Val(set of the flags that are set)
calculate_nta_score(comorbidities, special_services) ==
    LET score == ScoreComorbidities(comorbidities, 1)
                 + (IF special_services.kind = "value" /\ "dialysis" \in special_services.v
                    THEN DIALYSIS_NTA_POINTS ELSE 0)
    IN  Min(score, NTA_CAP)

classify_patient(t, extracted_data) ==
    LET primary_diagnosis == Get(extracted_data.primary_diagnosis, <<>>)
        comorbidities == Get(extracted_data.comorbidities, <<>>)
        functional_status == Get(extracted_data.functional_status, [adl_score |-> Absent])
        therapy_needs == Get(extracted_data.therapy_needs, [slp |-> FALSE])
        special_services == Get(extracted_data.special_services, {})
    IN  IF functional_status.kind = "null" THEN Raise("AttributeError")
        ELSE
        LET adl_score == functional_status.v.adl_score
            pt_ot == classify_pt_ot_group(t, primary_diagnosis, comorbidities)
        IN  IF Raised(pt_ot) THEN pt_ot
            ELSE IF special_services.kind = "null" THEN Raise("AttributeError")
            ELSE
            LET has_extensive_services ==
                    \E f \in {"trach", "dialysis", "iv_abx"} : f \in special_services.v
                nursing_group == classify_nursing_group(t, primary_diagnosis, comorbidities,
                                                        adl_score, has_extensive_services)
                has_slp_comorbidity == check_slp_comorbidity(comorbidities.v)
                nta_score == calculate_nta_score(comorbidities.v, special_services)
            IN  IF ~has_slp_comorbidity /\ therapy_needs.kind = "null"
                THEN Raise("AttributeError")
                ELSE Return([pt_group |-> pt_ot.val.pt_group,
                             ot_group |-> pt_ot.val.ot_group,
                             slp_group |-> IF has_slp_comorbidity \/ therapy_needs.v.slp
                                           THEN "SLP" ELSE "None",
                             nursing_group |-> nursing_group.val,
                             nta_score |-> nta_score,
                             clinical_category |-> pt_ot.val.clinical_category])

\* estimate_los: base stay of the therapy group plus the special-service extensions
estimate_los(pdpm_groups, special_services) ==
    LET pt_group == pdpm_groups.pt_group
        base_los == CASE pt_group = "TA" -> 12
                      [] pt_group = "TB" -> 14
                      [] pt_group = "TC" -> 18
                      [] pt_group = "TD" -> 16
                      [] OTHER -> 15
    IN  base_los
        + (IF "dialysis" \in special_services THEN 5 ELSE 0)
        + (IF "wound_vac" \in special_services THEN 3 ELSE 0)
        + (IF "trach" \in special_services THEN 7 ELSE 0)

----------------------------------------------------------------------------
(* ReimbursementCalculator                                                 *)

\* dict.get(key, default) on a dict modelled as a record
DGet(d, key, default) == IF key \in DOMAIN d THEN d[key] ELSE default

ZeroDivisionError == "ZeroDivisionError"
\* calculate_revenue's error for a payer type it does not know
UnsupportedPayerType == "ValueError: Unknown payer type"
UnknownContractType == "ValueError: Unknown contract type"

\* VPD_SCHEDULE.get(day, 0.85) with 1.00 as the default after day 20
vpd_factor_default_full(t, day) ==
    IF day \in DOMAIN t.VPD_SCHEDULE THEN Rat(t.VPD_SCHEDULE[day], 100) ELSE Rat(100, 100)

\* VPD_SCHEDULE.get(day, 0.85)
vpd_factor(t, day) ==
    IF day \in DOMAIN t.VPD_SCHEDULE THEN Rat(t.VPD_SCHEDULE[day], 100) ELSE Rat(85, 100)

\* an accrual loop that adds the plain rate every day
Accrue_no_vpd(t, rate, first, last) ==
    IF first > last THEN RInt(0) ELSE RMul(rate, RInt(last - first + 1))

\* the accrual loop "for day in range(1, los + 1): revenue += rate * vpd_factor",
\* the sum over the days first..last taken half by half
RECURSIVE Accrue(_, _, _, _)
Accrue(t, rate, first, last) ==
    IF first > last THEN RInt(0)
    ELSE IF first = last THEN RMul(rate, vpd_factor(t, first))
    ELSE LET mid == (first + last) \div 2
         IN  RAdd(Accrue(t, rate, first, mid), Accrue(t, rate, mid + 1, last))

LABOR_PORTION == Rat(713, 1000)

\* a wage adjustment that multiplies the whole amount by the wage index
WageAdjust_whole(x, wage_index) == RMul(x, wage_index)

\* labor share times the wage index, plus the non-labor share
WageAdjust(x, wage_index) ==
    RAdd(RMul(RMul(x, LABOR_PORTION), wage_index), RMul(x, RSub(RInt(1), LABOR_PORTION)))

calculate_medicare_ffs(t, pdpm_groups, rate_data, los, wage_index, vbp_multiplier) ==
    LET pt_rate == DGet(rate_data, "pt_component", Rat(6489, 100))
        ot_rate == DGet(rate_data, "ot_component", Rat(6438, 100))
        slp_rate == DGet(rate_data, "slp_component", Rat(2643, 100))
        nursing_rate == DGet(rate_data, "nursing_component", Rat(10581, 100))
        nta_rate == DGet(rate_data, "nta_component", Rat(8672, 100))
        non_case_mix == DGet(rate_data, "non_case_mix", Rat(9813, 100))
        pt_revenue == Accrue(t, pt_rate, 1, los)
        ot_revenue == Accrue(t, ot_rate, 1, los)
        slp_revenue == IF DGet(pdpm_groups, "slp_group", None) # "None"
                       THEN Accrue(t, slp_rate, 1, los) ELSE RInt(0)
        nursing_revenue == RMul(nursing_rate, RInt(los))
        nta_revenue == RMul(nta_rate, RInt(los))
        non_case_mix_revenue == RMul(non_case_mix, RInt(los))
        therapy_total == RAdd(RAdd(pt_revenue, ot_revenue), RAdd(slp_revenue, nursing_revenue))
        wage_adjusted_therapy == WageAdjust(therapy_total, wage_index)
        total_revenue == RMul(RAdd(wage_adjusted_therapy, RAdd(nta_revenue, non_case_mix_revenue)),
                              vbp_multiplier)
    IN  IF vbp_multiplier.n = 0 \/ los = 0 THEN Raise(ZeroDivisionError)
        ELSE Return([pt_revenue |-> WageAdjust(pt_revenue, wage_index),
                     ot_revenue |-> WageAdjust(ot_revenue, wage_index),
                     slp_revenue |-> WageAdjust(slp_revenue, wage_index),
                     nursing_revenue |-> WageAdjust(nursing_revenue, wage_index),
                     nta_revenue |-> nta_revenue,
                     non_case_mix_revenue |-> non_case_mix_revenue,
                     total_before_vbp |-> RDiv(total_revenue, vbp_multiplier),
                     vbp_adjustment |-> RSub(total_revenue, RDiv(total_revenue, vbp_multiplier)),
                     total_revenue |-> total_revenue,
                     per_diem_rate |-> RDiv(total_revenue, RInt(los))])

DEFAULT_DAY_TIERS ==
    ("1-30" :> RInt(450)) @@ ("31-60" :> RInt(400)) @@ ("61-100" :> RInt(375))

\* a day-tier rate that stops at day 100
TierRate_until_100(day_tiers, day) ==
    IF day <= 30 THEN DGet(day_tiers, "1-30", RInt(450))
    ELSE IF day <= 60 THEN DGet(day_tiers, "31-60", RInt(400))
    ELSE IF day <= 100 THEN DGet(day_tiers, "61-100", RInt(375))
    ELSE RInt(0)

\* the rate one day of the per-diem loop adds
TierRate(day_tiers, day) ==
    IF day <= 30 THEN DGet(day_tiers, "1-30", RInt(450))
    ELSE IF day <= 60 THEN DGet(day_tiers, "31-60", RInt(400))
    ELSE DGet(day_tiers, "61-100", RInt(375))

\* the per-diem loop of calculate_ma_commercial, the sum over the days first..last
\* taken half by half
RECURSIVE TierSum(_, _, _)
TierSum(day_tiers, first, last) ==
    IF first > last THEN RInt(0)
    ELSE IF first = last THEN TierRate(day_tiers, first)
    ELSE LET mid == (first + last) \div 2
         IN  RAdd(TierSum(day_tiers, first, mid), TierSum(day_tiers, mid + 1, last))

calculate_ma_commercial(t, contract_rates, los, pdpm_groups) ==
    LET contract_type == DGet(contract_rates, "contract_type", "per_diem")
    IN  IF contract_type = "per_diem"
        THEN LET day_tiers == DGet(contract_rates, "day_tiers", DEFAULT_DAY_TIERS)
                 total_revenue == TierSum(day_tiers, 1, los)
             IN  IF los = 0 THEN Raise(ZeroDivisionError)
                 ELSE Return([total_revenue |-> total_revenue,
                              per_diem_rate |-> RDiv(total_revenue, RInt(los)),
                              contract_type |-> "per_diem"])
        ELSE IF contract_type = "pdpm_mapped"
        THEN LET multiplier == DGet(contract_rates, "pdpm_multiplier", Rat(95, 100))
                 medicare_revenue == calculate_medicare_ffs(t, pdpm_groups, contract_rates, los,
                                                            RInt(1), RInt(1))
             IN  IF Raised(medicare_revenue) THEN medicare_revenue
                 ELSE LET total_revenue == RMul(medicare_revenue.val.total_revenue, multiplier)
                      IN  Return([total_revenue |-> total_revenue,
                                  per_diem_rate |-> RDiv(total_revenue, RInt(los)),
                                  contract_type |-> "pdpm_mapped",
                                  base_medicare_revenue |-> medicare_revenue.val.total_revenue,
                                  multiplier |-> multiplier])
        ELSE Raise(UnknownContractType)

calculate_medicaid_wi(medicaid_rates, los) ==
    IF "per_diem_rate" \in DOMAIN medicaid_rates
    THEN Return([total_revenue |-> RMul(medicaid_rates.per_diem_rate, RInt(los)),
                 per_diem_rate |-> medicaid_rates.per_diem_rate,
                 rate_type |-> "per_diem"])
    ELSE LET nursing_rate == DGet(medicaid_rates, "component_nursing", RInt(185))
             therapy_rate == DGet(medicaid_rates, "component_therapy", RInt(95))
             room_rate == DGet(medicaid_rates, "component_room", RInt(45))
             total_revenue == RMul(RAdd(RAdd(nursing_rate, therapy_rate), room_rate), RInt(los))
         IN  IF los = 0 THEN Raise(ZeroDivisionError)
             ELSE Return([nursing_revenue |-> RMul(nursing_rate, RInt(los)),
                          therapy_revenue |-> RMul(therapy_rate, RInt(los)),
                          room_revenue |-> RMul(room_rate, RInt(los)),
                          total_revenue |-> total_revenue,
                          per_diem_rate |-> RDiv(total_revenue, RInt(los)),
                          rate_type |-> "component"])

FAMILY_CARE_NURSING_FALLBACK == RInt(275)

\* NTA brackets that start one point late
NtaRate_brackets_shifted(nta_matrix, nta_score) ==
    IF nta_score > 12 THEN DGet(nta_matrix, "12+", RInt(100))
    ELSE IF nta_score > 6 THEN DGet(nta_matrix, "6-11", RInt(85))
    ELSE DGet(nta_matrix, "0-5", RInt(70))

\* the NTA per-diem rate by score range
NtaRate(nta_matrix, nta_score) ==
    IF nta_score >= 12 THEN DGet(nta_matrix, "12+", RInt(100))
    ELSE IF nta_score >= 6 THEN DGet(nta_matrix, "6-11", RInt(85))
    ELSE DGet(nta_matrix, "0-5", RInt(70))

calculate_family_care_wi(mco_rates, pdpm_groups, los) ==
    LET nursing_group == DGet(pdpm_groups, "nursing_group", "LBS2")
        nta_score == DGet(pdpm_groups, "nta_score", 0)
        nursing_matrix == DGet(mco_rates, "nursing_matrix", <<>>)
        nta_matrix == DGet(mco_rates, "nta_matrix", <<>>)
        nursing_rate == DGet(nursing_matrix, nursing_group, FAMILY_CARE_NURSING_FALLBACK)
        nta_rate == NtaRate(nta_matrix, nta_score)
        total_revenue == RMul(RAdd(nursing_rate, nta_rate), RInt(los))
    IN  IF los = 0 THEN Raise(ZeroDivisionError)
        ELSE Return([nursing_revenue |-> RMul(nursing_rate, RInt(los)),
                     nta_revenue |-> RMul(nta_rate, RInt(los)),
                     total_revenue |-> total_revenue,
                     per_diem_rate |-> RDiv(total_revenue, RInt(los)),
                     nursing_group |-> nursing_group,
                     nta_score |-> nta_score])

\* a dispatch that prices a pdpm_mapped contract at the facility's wage index and
\* VBP multiplier
calculate_revenue_facility_adjusted(t, payer_type, rate_data, pdpm_groups, los, facility_data) ==
    LET fd == IF facility_data = Null THEN <<>> ELSE facility_data.v
    IN  IF payer_type = "medicare_ffs"
        THEN calculate_medicare_ffs(t, pdpm_groups, rate_data, los,
                                    DGet(fd, "wage_index", RInt(1)),
                                    DGet(fd, "vbp_multiplier", RInt(1)))
        ELSE IF payer_type = "ma_commercial"
        THEN IF DGet(rate_data, "contract_type", "per_diem") = "pdpm_mapped"
             THEN LET multiplier == DGet(rate_data, "pdpm_multiplier", Rat(95, 100))
                      medicare_revenue ==
                          calculate_medicare_ffs(t, pdpm_groups, rate_data, los,
                                                 DGet(fd, "wage_index", RInt(1)),
                                                 DGet(fd, "vbp_multiplier", RInt(1)))
                  IN  IF Raised(medicare_revenue) THEN medicare_revenue
                      ELSE LET total_revenue ==
                                   RMul(medicare_revenue.val.total_revenue, multiplier)
                           IN  Return([total_revenue |-> total_revenue,
                                       per_diem_rate |-> RDiv(total_revenue, RInt(los)),
                                       contract_type |-> "pdpm_mapped",
                                       base_medicare_revenue |->
                                           medicare_revenue.val.total_revenue,
                                       multiplier |-> multiplier])
             ELSE calculate_ma_commercial(t, rate_data, los, pdpm_groups)
        ELSE IF payer_type = "medicaid_wi" THEN calculate_medicaid_wi(rate_data, los)
        ELSE IF payer_type = "family_care_wi"
        THEN calculate_family_care_wi(rate_data, pdpm_groups, los)
        ELSE Raise(UnsupportedPayerType)

calculate_revenue(t, payer_type, rate_data, pdpm_groups, los, facility_data) ==
    LET fd == IF facility_data = Null THEN <<>> ELSE facility_data.v
    IN  IF payer_type = "medicare_ffs"
        THEN calculate_medicare_ffs(t, pdpm_groups, rate_data, los,
                                    DGet(fd, "wage_index", RInt(1)),
                                    DGet(fd, "vbp_multiplier", RInt(1)))
        ELSE IF payer_type = "ma_commercial"
        THEN calculate_ma_commercial(t, rate_data, los, pdpm_groups)
        ELSE IF payer_type = "medicaid_wi" THEN calculate_medicaid_wi(rate_data, los)
        ELSE IF payer_type = "family_care_wi"
        THEN calculate_family_care_wi(rate_data, pdpm_groups, los)
        ELSE Raise(UnsupportedPayerType)

----------------------------------------------------------------------------
(* CostEstimator                                                           *)

estimate_nursing_cost(nursing_hours, hourly_rate, los) ==
    RMul(RMul(nursing_hours, hourly_rate), RInt(los))

estimate_supply_cost(base_supply_cost, los, special_services) ==
    LET daily_supply_cost ==
            RAdd(base_supply_cost,
                 RInt((IF "wound_vac" \in special_services THEN 75 ELSE 0)
                      + (IF "oxygen" \in special_services THEN 25 ELSE 0)
                      + (IF "feeding_tube" \in special_services THEN 40 ELSE 0)))
    IN  RMul(daily_supply_cost, RInt(los))

estimate_pharmacy_cost(special_services, los) ==
    LET daily_pharmacy_cost ==
            (IF "iv_abx" \in special_services THEN 150 ELSE 0)
            + (IF "wound_vac" \in special_services THEN 50 ELSE 0)
            + 30
    IN  RInt(daily_pharmacy_cost * los)

estimate_transport_cost(needs_transport, transport_type) ==
    IF ~needs_transport THEN RInt(0)
    ELSE IF transport_type = "ambulance" THEN RInt(500)
    ELSE RInt(150)

\* a fallback denial probability of zero
DEFAULT_DENIAL_PROBABILITY_zero == RInt(0)

DEFAULT_DENIAL_PROBABILITY == Rat(25, 100)
AVG_DENIAL_LOSS_PCT == Rat(30, 100)
OVERHEAD_RATE == Rat(22, 100)

\* a lookup that falls back to the payer's own 'unknown' probability
estimate_denial_loss_payer_default(t, projected_revenue, payer_type, auth_status) ==
    LET by_status == DGet(t.DENIAL_RISK, payer_type, <<>>)
        denial_probability ==
            IF auth_status \in DOMAIN by_status THEN Rat(by_status[auth_status], 100)
            ELSE IF "unknown" \in DOMAIN by_status THEN Rat(by_status["unknown"], 100)
            ELSE DEFAULT_DENIAL_PROBABILITY
    IN  [denial_probability |-> denial_probability,
         avg_denial_loss_percentage |-> AVG_DENIAL_LOSS_PCT,
         expected_denial_loss |-> RMul(RMul(projected_revenue, denial_probability),
                                       AVG_DENIAL_LOSS_PCT),
         revenue_at_risk |-> RMul(projected_revenue, AVG_DENIAL_LOSS_PCT)]

estimate_denial_loss(t, projected_revenue, payer_type, auth_status) ==
    LET by_status == DGet(t.DENIAL_RISK, payer_type, <<>>)
        denial_probability ==
            IF auth_status \in DOMAIN by_status THEN Rat(by_status[auth_status], 100)
            ELSE DEFAULT_DENIAL_PROBABILITY
    IN  [denial_probability |-> denial_probability,
         avg_denial_loss_percentage |-> AVG_DENIAL_LOSS_PCT,
         expected_denial_loss |-> RMul(RMul(projected_revenue, denial_probability),
                                       AVG_DENIAL_LOSS_PCT),
         revenue_at_risk |-> RMul(projected_revenue, AVG_DENIAL_LOSS_PCT)]

\* the cost total with the expected denial loss subtracted instead of added
TotalCostWithRisk_subtracted(total_direct_cost, overhead_cost, expected_denial_loss) ==
    RSub(RAdd(total_direct_cost, overhead_cost), expected_denial_loss)

\* total_direct_cost + overhead_cost + denial['expected_denial_loss']
TotalCostWithRisk(total_direct_cost, overhead_cost, expected_denial_loss) ==
    RAdd(RAdd(total_direct_cost, overhead_cost), expected_denial_loss)

\* special_services: Null (None) or Val(set of the flags that are set)
estimate_total_cost(t, cost_model_data, los, special_services, needs_transport, projected_revenue, payer_type, auth_status) ==
    LET services == IF special_services = Null THEN {} ELSE special_services.v
        nursing_hours == DGet(cost_model_data, "nursing_hours", RInt(4))
        hourly_rate == DGet(cost_model_data, "hourly_rate", RInt(35))
        supply_cost == DGet(cost_model_data, "supply_cost", RInt(50))
        nursing == estimate_nursing_cost(nursing_hours, hourly_rate, los)
        supplies == estimate_supply_cost(supply_cost, los, services)
        pharmacy == estimate_pharmacy_cost(services, los)
        transport == estimate_transport_cost(needs_transport, "wheelchair_van")
        denial == estimate_denial_loss(t, projected_revenue, payer_type, auth_status)
        total_direct_cost == RAdd(RAdd(nursing, supplies), RAdd(pharmacy, transport))
        overhead_cost == RMul(total_direct_cost, OVERHEAD_RATE)
        total_cost_with_risk ==
            TotalCostWithRisk(total_direct_cost, overhead_cost, denial.expected_denial_loss)
    IN  IF los = 0 THEN Raise(ZeroDivisionError)
        ELSE Return([nursing_cost |-> nursing,
                     supply_cost |-> supplies,
                     pharmacy_cost |-> pharmacy,
                     transport_cost |-> transport,
                     total_direct_cost |-> total_direct_cost,
                     overhead_rate |-> OVERHEAD_RATE,
                     overhead_cost |-> overhead_cost,
                     denial_risk |-> denial,
                     total_cost |-> total_cost_with_risk,
                     total_cost_no_risk |-> RAdd(total_direct_cost, overhead_cost),
                     per_diem_cost |-> RDiv(total_cost_with_risk, RInt(los)),
                     los |-> los])

----------------------------------------------------------------------------
(* ScoringEngine                                                           *)

\* self.thresholds = Config.SCORE_THRESHOLDS binds the shared dict itself; an
\* attribute holding a dict of its own is [ref |-> "instance", dict |-> d]
SharedThresholds == [ref |-> "Config.SCORE_THRESHOLDS"]

\* business_weights: Null (None) or Val(dict); an empty dict is falsy
ScoringEngine_init(t, business_weights) ==
    [constructed |-> TRUE,
     weights |-> IF business_weights = Null \/ DOMAIN business_weights.v = {}
                 THEN [k \in DOMAIN t.DEFAULT_BUSINESS_WEIGHTS |->
                          Rat(t.DEFAULT_BUSINESS_WEIGHTS[k], 10)]
                 ELSE business_weights.v,
     thresholds |-> SharedThresholds]

\* a scoring method that overwrites self.weights with zeros after use
ScoringEngineAfter_zeroed(self, op) ==
    IF op = "calculate_margin_score"
    THEN [self EXCEPT !.weights = [k \in DOMAIN self.weights |-> RInt(0)]]
    ELSE self

\* the object after one of its methods ran: no method assigns to self
ScoringEngineAfter(self, op) == self

calculate_base_margin(projected_revenue, projected_cost, los) ==
    LET total_margin == RSub(projected_revenue, projected_cost)
    IN  [total_margin |-> total_margin,
         margin_percentage |-> IF projected_revenue.n > 0
                               THEN RMul(RDiv(total_margin, projected_revenue), RInt(100))
                               ELSE RInt(0),
         per_diem_margin |-> IF los > 0 THEN RDiv(total_margin, RInt(los)) ELSE RInt(0),
         projected_revenue |-> projected_revenue,
         projected_cost |-> projected_cost,
         los |-> los]

\* normalize_margin_score whose positive branch lacks the 50-point offset
normalize_margin_score_no_offset(per_diem_margin) ==
    LET normalized ==
            IF per_diem_margin.n >= 0
            THEN RMul(RDiv(per_diem_margin, RAdd(per_diem_margin, RInt(200))), RInt(50))
            ELSE RMax(RInt(0), RAdd(RInt(50), RMul(RDiv(per_diem_margin, RInt(100)), RInt(50))))
    IN  RMin(RInt(100), RMax(RInt(0), normalized))

\* normalize_margin_score whose negative branch halves the penalty slope
normalize_margin_score_half_slope(per_diem_margin) ==
    LET normalized ==
            IF per_diem_margin.n >= 0
            THEN RAdd(RInt(50),
                      RMul(RDiv(per_diem_margin, RAdd(per_diem_margin, RInt(200))), RInt(50)))
            ELSE RMax(RInt(0), RAdd(RInt(50), RMul(RDiv(per_diem_margin, RInt(100)), RInt(25))))
    IN  RMin(RInt(100), RMax(RInt(0), normalized))

normalize_margin_score(per_diem_margin) ==
    LET normalized ==
            IF per_diem_margin.n >= 0
            THEN RAdd(RInt(50),
                      RMul(RDiv(per_diem_margin, RAdd(per_diem_margin, RInt(200))), RInt(50)))
            ELSE RMax(RInt(0), RAdd(RInt(50), RMul(RDiv(per_diem_margin, RInt(100)), RInt(50))))
    IN  RMin(RInt(100), RMax(RInt(0), normalized))

calculate_census_factor(current_census_pct, target_census_pct) ==
    LET census_gap == RSub(target_census_pct, current_census_pct)
    IN  RMin(RInt(10), RMax(RInt(0 - 10), census_gap))

\* special_services: Null (None) or Val(set of the flags that are set)
calculate_complexity_penalty(pdpm_groups, special_services) ==
    LET services == IF special_services = Null THEN {} ELSE special_services.v
        penalty == (IF DGet(pdpm_groups, "nursing_group", None) \in {"ES1", "ES2"} THEN 5 ELSE 0)
                   + (IF "dialysis" \in services THEN 8 ELSE 0)
                   + (IF "trach" \in services THEN 6 ELSE 0)
                   + (IF "wound_vac" \in services THEN 4 ELSE 0)
                   + (IF "iv_abx" \in services THEN 3 ELSE 0)
    IN  Min(20, penalty)

high_risk_terms ==
    {"falls risk", "multiple readmissions", "poor compliance", "unstable",
     "acute exacerbation"}

\* A text is represented by the set of phrases that occur in it, each occurrence
\* written in lower case or with capitals: [phrase |-> the phrase in lower case,
\* upper |-> whether the text spells it with capitals].
Text(phrases) == {[phrase |-> p, upper |-> FALSE] : p \in phrases}

\* str.lower()
Lower(text) == {[phrase |-> o.phrase, upper |-> FALSE] : o \in text}

\* term in text, for a term written in lower case
Contains(text, term) == [phrase |-> term, upper |-> FALSE] \in text

\* a search of the notes as they are written
calculate_readmit_risk_penalty_case_sensitive(clinical_notes, has_history) ==
    Min(10, 2 * Cardinality({term \in high_risk_terms : Contains(clinical_notes, term)})
            + (IF has_history THEN 5 ELSE 0))

calculate_readmit_risk_penalty(clinical_notes, has_history) ==
    LET clinical_notes_lower == Lower(clinical_notes)
    IN  Min(10, 2 * Cardinality({term \in high_risk_terms :
                                   Contains(clinical_notes_lower, term)})
                + (IF has_history THEN 5 ELSE 0))

\* the final clamp without its lower bound
ClampScore_upper_only(final_score) == RMin(RInt(100), final_score)

\* final_score = min(100, max(0, final_score))
ClampScore(final_score) == RMin(RInt(100), RMax(RInt(0), final_score))

WeightKeys == {"census", "denial_risk", "complexity", "readmit_risk"}

\* step 4 with the business weight left out
WeightedValue_unweighted(raw_value, weight) == raw_value

\* step 4: an adjustment's raw value times its business weight
WeightedValue(raw_value, weight) == RMul(raw_value, weight)

calculate_margin_score(self, projected_revenue, projected_cost, los, pdpm_groups, special_services, denial_risk, current_census_pct, target_census_pct, clinical_notes) ==
    IF clinical_notes = Null THEN Raise("AttributeError")
    ELSE IF ~(WeightKeys \subseteq DOMAIN self.weights) THEN Raise("KeyError")
    ELSE
    LET base_margin == calculate_base_margin(projected_revenue, projected_cost, los)
        base_score == normalize_margin_score(base_margin.per_diem_margin)
        census_factor == calculate_census_factor(current_census_pct, target_census_pct)
        complexity_penalty == RInt(calculate_complexity_penalty(pdpm_groups, special_services))
        readmit_penalty == RInt(calculate_readmit_risk_penalty(clinical_notes.v, FALSE))
        denial_penalty == RMul(RMul(denial_risk, RInt(100)), Rat(15, 100))
        weighted_census == WeightedValue(census_factor, self.weights["census"])
        weighted_denial == WeightedValue(denial_penalty, self.weights["denial_risk"])
        weighted_complexity == WeightedValue(complexity_penalty, self.weights["complexity"])
        weighted_readmit == WeightedValue(readmit_penalty, self.weights["readmit_risk"])
        final_score == RSub(RSub(RSub(RAdd(base_score, weighted_census), weighted_denial),
                                 weighted_complexity), weighted_readmit)
    IN  Return([base_margin |-> base_margin,
                base_score |-> base_score,
                adjustments |->
                    [census_factor |-> [raw_value |-> census_factor,
                                        weighted_value |-> weighted_census,
                                        weight |-> self.weights["census"]],
                     denial_risk |-> [raw_value |-> denial_penalty,
                                      weighted_value |-> RNeg(weighted_denial),
                                      weight |-> self.weights["denial_risk"]],
                     complexity |-> [raw_value |-> complexity_penalty,
                                     weighted_value |-> RNeg(weighted_complexity),
                                     weight |-> self.weights["complexity"]],
                     readmit_risk |-> [raw_value |-> readmit_penalty,
                                       weighted_value |-> RNeg(weighted_readmit),
                                       weight |-> self.weights["readmit_risk"]]],
                final_score |-> ClampScore(final_score)])

\* int(x): truncation toward zero
IntOf(x) == IF x.n >= 0 THEN x.n \div x.d ELSE 0 - ((0 - x.n) \div x.d)

\* the dict that self.thresholds denotes when the method runs
ThresholdsOf(t, self) ==
    IF self.thresholds.ref = SharedThresholds.ref THEN t.SCORE_THRESHOLDS
    ELSE self.thresholds.dict

\* get_recommendation with 70 and 40 written into the comparisons
get_recommendation_hard_coded(t, self, score) ==
    IF RLe(RInt(70), score) THEN "Accept"
    ELSE IF RLe(RInt(40), score) THEN "Defer"
    ELSE "Decline"

\* score: a number (the route passes int(final_score))
get_recommendation(t, self, score) ==
    LET thresholds == ThresholdsOf(t, self)
    IN  IF RLe(RInt(thresholds.accept), score) THEN "Accept"
        ELSE IF RLe(RInt(thresholds.defer), score) THEN "Defer"
        ELSE "Decline"

----------------------------------------------------------------------------
(* Inputs of the classifier                                                *)

MaxComorbidities == 3

I50_9 == <<"I", "5", "0", ".", "9">>             \* heart failure
J44_0 == <<"J", "4", "4", ".", "0">>             \* COPD
E11_9 == <<"E", "1", "1", ".", "9">>             \* diabetes
R47_01 == <<"R", "4", "7", ".", "0", "1">>       \* aphasia
Z96_641 == <<"Z", "9", "6", ".", "6", "4", "1">> \* hip joint replacement
M16_11 == <<"M", "1", "6", ".", "1", "1">>       \* osteoarthritis of the hip

ComorbidityCodes == {I50_9, J44_0, E11_9, R47_01, Z96_641}

ComorbidityLists ==
    UNION {[1..n -> ComorbidityCodes] : n \in 0..MaxComorbidities}

ExtractedData ==
    [primary_diagnosis : {Absent, Null, Val(M16_11), Val(I50_9)},
     comorbidities     : {Absent, Null} \cup {Val(l) : l \in ComorbidityLists},
     functional_status : {Absent, Null, Val([adl_score |-> Absent]), Val([adl_score |-> Val(16)])},
     therapy_needs     : {Absent, Null, Val([slp |-> TRUE])},
     special_services  : {Absent, Null, Val({}), Val({"dialysis"})}]

ClassifyCalls ==
    {[op |-> "classify_patient", extracted_data |-> e] : e \in ExtractedData}

NtaCalls ==
    {[op |-> "calculate_nta_score", comorbidities |-> l, special_services |-> s] :
        l \in ComorbidityLists, s \in {Null, Val({}), Val({"dialysis"}), Val({"trach"})}}

RequestsIdle == <<>>

----------------------------------------------------------------------------
(* Classifier calls over codes of every clinical category                  *)

MaxCodes == 2

J18_9 == <<"J", "1", "8", ".", "9">>             \* pneumonia
G81_90 == <<"G", "8", "1", ".", "9", "0">>       \* hemiplegia

CategoryCodes == {Z96_641, M16_11, J18_9, I50_9, J44_0, G81_90, E11_9, R47_01}

CategoryCodeLists == UNION {[1..n -> CategoryCodes] : n \in 0..MaxCodes}

GroupCalls ==
    {[op |-> "classify_patient",
      extracted_data |-> [primary_diagnosis |-> p, comorbidities |-> Val(l),
                          functional_status |-> f, therapy_needs |-> Absent,
                          special_services |-> s]] :
        p \in {Absent, Val(I50_9), Val(M16_11), Val(G81_90), Val(E11_9)},
        l \in CategoryCodeLists,
        f \in {Absent} \cup {Val([adl_score |-> a]) :
                                a \in {Absent, Val(0), Val(14), Val(15)}},
        s \in {Absent, Val({"wound_vac"}), Val({"trach"}), Val({"dialysis"}),
                Val({"iv_abx"})}}

----------------------------------------------------------------------------
(* Specification of the classifier calls                                   *)

InitClassify ==
    /\ tables = Tables0
    /\ call \in ClassifyCalls \cup NtaCalls
    /\ engine = NotConstructed
    /\ ret = NotCalled
    /\ aux = NotCalled
    /\ prev = NotCalled
    /\ reqs = RequestsIdle
    /\ db = EmptyDb
    /\ files = {}
    /\ session = EmptySession
    /\ now = 0

ClassifyPatient ==
    /\ call.op = "classify_patient"
    /\ ret = NotCalled
    /\ ret' = classify_patient(tables, call.extracted_data)
    /\ UNCHANGED <<now, files, session, db, tables, engine, call, aux, prev, reqs>>

CalculateNtaScore ==
    /\ call.op = "calculate_nta_score"
    /\ ret = NotCalled
    /\ ret' = Return(calculate_nta_score(call.comorbidities, call.special_services))
    /\ UNCHANGED <<now, files, session, db, tables, engine, call, aux, prev, reqs>>

EstimateLos ==
    /\ call.op = "classify_patient"
    /\ Returned(ret)
    /\ aux = NotCalled
    /\ aux' = Return(estimate_los(ret.val, Get(call.extracted_data.special_services, {}).v))
    /\ UNCHANGED <<now, files, session, db, tables, engine, call, ret, prev, reqs>>

NextClassify == ClassifyPatient \/ CalculateNtaScore \/ EstimateLos

SpecClassify == InitClassify /\ [][NextClassify]_vars

\* the same classifier over the calls with codes of every category
InitGroups ==
    /\ tables = Tables0
    /\ call \in GroupCalls
    /\ engine = NotConstructed
    /\ ret = NotCalled
    /\ aux = NotCalled
    /\ prev = NotCalled
    /\ reqs = RequestsIdle
    /\ db = EmptyDb
    /\ files = {}
    /\ session = EmptySession
    /\ now = 0

\* classify_nursing_group called on its own, the services flag given directly
ClassifyNursingGroup ==
    /\ call.op = "classify_patient"
    /\ aux = NotCalled
    /\ \E has_extensive_services \in BOOLEAN :
          LET e == call.extracted_data
              r == classify_nursing_group(tables, Get(e.primary_diagnosis, <<>>),
                                          e.comorbidities,
                                          Get(e.functional_status, [adl_score |-> Absent]).v.adl_score,
                                          has_extensive_services)
          IN  aux' = [exc |-> r.exc, val |-> r.val,
                      has_extensive_services |-> has_extensive_services]
    /\ UNCHANGED <<now, files, session, db, tables, engine, call, ret, prev, reqs>>

NextGroups == ClassifyPatient \/ ClassifyNursingGroup

SpecGroups == InitGroups /\ [][NextGroups]_vars

----------------------------------------------------------------------------
(* Inputs of the revenue and cost calls                                    *)

MaxLos == 22

\* lengths of stay offered to the calculators: a negative one, zero, and 1..MaxLos
LosValues == {0 - 1} \cup (0 .. MaxLos)

EmptyDict == <<>>

\* stays priced with the built-in cent-valued default rates: the days on which the
\* products of the exact fractions stay within TLC's integers
DefaultRateLos == {0, 1, 2, 3}

SmallMedicareRates ==
    [pt_component |-> RInt(4), ot_component |-> RInt(3), slp_component |-> RInt(2),
     nursing_component |-> RInt(5), nta_component |-> RInt(2), non_case_mix |-> RInt(1)]

NegativeMedicareRates ==
    [pt_component |-> RInt(0 - 4), ot_component |-> RInt(3), slp_component |-> RInt(2),
     nursing_component |-> RInt(0 - 5), nta_component |-> RInt(2), non_case_mix |-> RInt(1)]

PdpmGroups ==
    {[slp_group |-> "None", nursing_group |-> "LBS2", nta_score |-> 0],
     [slp_group |-> "SLP", nursing_group |-> "ES1", nta_score |-> 7],
     [slp_group |-> "SLP", nursing_group |-> "HBS1", nta_score |-> 12],
     [nursing_group |-> "LBS1", nta_score |-> 3]}

FacilityData ==
    {Null, Val(EmptyDict),
     Val([wage_index |-> Rat(5, 4), vbp_multiplier |-> Rat(9, 10)]),
     Val([wage_index |-> Rat(4, 5)])}

MaRates ==
    {EmptyDict,
     [contract_type |-> "per_diem", day_tiers |-> ("1-30" :> RInt(500))],
     [contract_type |-> "pdpm_mapped", pdpm_multiplier |-> Rat(9, 10)] @@ SmallMedicareRates,
     [contract_type |-> "pdpm_mapped"] @@ SmallMedicareRates,
     [contract_type |-> "case_rate"]}

\* per-diem contracts with all three tiers, the seeded one among them, and one with
\* a tier missing
TieredMaRates ==
    {[contract_type |-> "per_diem",
      day_tiers |-> ("1-30" :> RInt(450)) @@ ("31-60" :> RInt(400)) @@ ("61-100" :> RInt(375))],
     [day_tiers |-> ("1-30" :> RInt(7)) @@ ("31-60" :> RInt(5)) @@ ("61-100" :> RInt(3))],
     [contract_type |-> "per_diem",
      day_tiers |-> ("1-30" :> RInt(430)) @@ ("61-100" :> RInt(360))]}

\* stays around the tier boundaries and beyond day 100
TierLos == {29, 30, 31, 32, 59, 60, 61, 62, 99, 100, 101, 102, 120}

MedicaidRates ==
    {[per_diem_rate |-> RInt(210)], EmptyDict, [component_nursing |-> RInt(200)],
     [per_diem_rate |-> RInt(0 - 10)]}

FamilyCareRates ==
    {EmptyDict,
     [nursing_matrix |-> [ES1 |-> RInt(320)], nta_matrix |-> ("12+" :> RInt(110))]}

\* the seeded Family Care matrices and matrices whose nursing rates all differ from
\* the built-in ones
FullFamilyCareRates ==
    {[nursing_matrix |-> [ES1 |-> RInt(320), ES2 |-> RInt(295), HBS1 |-> RInt(285),
                          HBS2 |-> RInt(275), LBS1 |-> RInt(250), LBS2 |-> RInt(240)],
      nta_matrix |-> ("12+" :> RInt(100)) @@ ("6-11" :> RInt(85)) @@ ("0-5" :> RInt(70))],
     [nursing_matrix |-> [ES1 |-> RInt(310), HBS2 |-> Rat(5321, 20), LBS2 |-> RInt(230)],
      nta_matrix |-> ("12+" :> RInt(95)) @@ ("6-11" :> RInt(80)) @@ ("0-5" :> RInt(65))]}

\* nursing groups in and out of the matrices, NTA scores at the bracket edges
FamilyCareGroups ==
    [nursing_group : {"ES1", "HBS2", "CBC1"}, nta_score : {0, 5, 6, 11, 12, 13, 20}]

UnknownPayerTypes == {"MA", "commercial", ""}

RevenueCall(p, r, g, l, f) ==
    [op |-> "calculate_revenue", payer_type |-> p, rate_data |-> r, pdpm_groups |-> g,
     los |-> l, facility_data |-> f]

RevenueCalls ==
    {RevenueCall("medicare_ffs", r, g, l, f) :
        r \in {SmallMedicareRates, NegativeMedicareRates}, g \in PdpmGroups,
        l \in LosValues, f \in FacilityData}
    \cup {RevenueCall("medicare_ffs", EmptyDict, g, l, Null) :
            g \in PdpmGroups, l \in DefaultRateLos}
    \cup {RevenueCall("ma_commercial", r, g, l, f) :
            r \in MaRates, g \in PdpmGroups, l \in LosValues, f \in FacilityData}
    \cup {RevenueCall("ma_commercial", r, g, l, Null) :
            r \in TieredMaRates, g \in PdpmGroups, l \in LosValues \cup TierLos}
    \cup {RevenueCall("medicaid_wi", r, g, l, Null) :
            r \in MedicaidRates, g \in PdpmGroups, l \in LosValues}
    \cup {RevenueCall("family_care_wi", r, g, l, Null) :
            r \in FamilyCareRates, g \in PdpmGroups, l \in LosValues}
    \cup {RevenueCall("family_care_wi", r, g, l, Null) :
            r \in FullFamilyCareRates, g \in FamilyCareGroups, l \in LosValues}
    \cup {RevenueCall(p, SmallMedicareRates, g, l, f) :
            p \in UnknownPayerTypes, g \in PdpmGroups, l \in LosValues, f \in FacilityData}

CostModels ==
    {EmptyDict,
     [acuity_band |-> "high", nursing_hours |-> Rat(11, 2), hourly_rate |-> RInt(38),
      supply_cost |-> RInt(65)],
     [acuity_band |-> "low", nursing_hours |-> RInt(0), hourly_rate |-> RInt(0),
      supply_cost |-> RInt(0)],
     [acuity_band |-> "low", nursing_hours |-> RInt(3), hourly_rate |-> RInt(0 - 35)]}

CostServices ==
    {Null, Val({}), Val({"wound_vac"}), Val({"iv_abx", "oxygen"}),
     Val({"wound_vac", "iv_abx", "oxygen", "feeding_tube"})}

ProjectedRevenues == {RInt(0 - 900), RInt(0), Rat(19999, 4), RInt(12000)}

CostPayerTypes == {"medicare_ffs", "ma_commercial", "medicaid_wi", "family_care_wi", "MA"}
AuthStatuses == {"granted", "pending", "unknown", "denied"}

CostCalls ==
    [op : {"estimate_total_cost"}, cost_model_data : CostModels, los : LosValues,
     special_services : CostServices, needs_transport : BOOLEAN,
     transport_type : {"wheelchair_van"},
     projected_revenue : ProjectedRevenues, payer_type : CostPayerTypes,
     auth_status : AuthStatuses]

\* admissions that arrive by ambulance; transport_type is what the admission needs,
\* estimate_total_cost has no parameter for it
AmbulanceCalls ==
    [op : {"estimate_total_cost"}, cost_model_data : CostModels, los : LosValues,
     special_services : {Null, Val({"wound_vac"})}, needs_transport : BOOLEAN,
     transport_type : {"ambulance"},
     projected_revenue : {RInt(12000)}, payer_type : {"medicare_ffs"},
     auth_status : {"granted"}]

TransportTypes == {Absent, Val("ambulance"), Val("wheelchair_van"), Val("stretcher")}

TransportCalls ==
    [op : {"estimate_transport_cost"}, needs_transport : BOOLEAN,
     transport_type : TransportTypes]

----------------------------------------------------------------------------
(* Specification of the revenue and cost calls                             *)

InitFinance ==
    /\ tables = Tables0
    /\ call \in RevenueCalls \cup CostCalls \cup AmbulanceCalls \cup TransportCalls
    /\ engine = NotConstructed
    /\ ret = NotCalled
    /\ aux = NotCalled
    /\ prev = NotCalled
    /\ reqs = RequestsIdle
    /\ db = EmptyDb
    /\ files = {}
    /\ session = EmptySession
    /\ now = 0

CalculateRevenue ==
    /\ call.op = "calculate_revenue"
    /\ ret = NotCalled
    /\ ret' = calculate_revenue(tables, call.payer_type, call.rate_data, call.pdpm_groups,
                                call.los, call.facility_data)
    /\ UNCHANGED <<now, files, session, db, tables, engine, call, aux, prev, reqs>>

EstimateTotalCost ==
    /\ call.op = "estimate_total_cost"
    /\ ret = NotCalled
    /\ ret' = estimate_total_cost(tables, call.cost_model_data, call.los,
                                  call.special_services, call.needs_transport,
                                  call.projected_revenue, call.payer_type, call.auth_status)
    /\ UNCHANGED <<now, files, session, db, tables, engine, call, aux, prev, reqs>>

EstimateTransportCost ==
    /\ call.op = "estimate_transport_cost"
    /\ ret = NotCalled
    /\ ret' = Return(estimate_transport_cost(
                        call.needs_transport,
                        Get(call.transport_type, "wheelchair_van").v))
    /\ UNCHANGED <<now, files, session, db, tables, engine, call, aux, prev, reqs>>

NextFinance == CalculateRevenue \/ EstimateTotalCost \/ EstimateTransportCost

SpecFinance == InitFinance /\ [][NextFinance]_vars

----------------------------------------------------------------------------
(* Inputs of the scoring calls                                             *)

PenaltyHeavyWeights ==
    [margin |-> RInt(1), census |-> RInt(0), denial_risk |-> RInt(5),
     complexity |-> RInt(5), readmit_risk |-> RInt(5)]

CensusHeavyWeights ==
    [margin |-> RInt(1), census |-> RInt(10), denial_risk |-> RInt(0),
     complexity |-> RInt(0), readmit_risk |-> RInt(0)]

BusinessWeights ==
    {Null, Val(EmptyDict), Val(PenaltyHeavyWeights), Val(CensusHeavyWeights),
     Val([census |-> Rat(1, 5)])}

\* (projected_revenue, projected_cost, los)
FinancialInputs ==
    {<<RInt(6000), RInt(4500), 15>>, <<RInt(12000), RInt(4500), 15>>,
     <<RInt(6000), RInt(6000), 15>>, <<RInt(3000), RInt(4500), 15>>,
     <<RInt(4500), RInt(5250), 15>>, <<RInt(0), RInt(0), 1>>,
     <<RInt(6000), RInt(4500), 0>>, <<RInt(6000), RInt(4500), 0 - 1>>,
     <<RInt(3000), RInt(30000), 1>>, <<RInt(4499), RInt(4500), 15>>,
     <<RInt(4501), RInt(4500), 15>>}

ScoreServices == {Null, Val({}), Val({"dialysis", "trach", "wound_vac", "iv_abx"})}

ClinicalNotes == {Null, Val({}), Val(Text(high_risk_terms))}

ScoreCalls ==
    {[op |-> "calculate_margin_score", business_weights |-> w,
      projected_revenue |-> f[1], projected_cost |-> f[2], los |-> f[3],
      pdpm_groups |-> g, special_services |-> s, denial_risk |-> dr,
      current_census_pct |-> c, target_census_pct |-> RInt(90), clinical_notes |-> n] :
        w \in BusinessWeights, f \in FinancialInputs,
        g \in {[slp_group |-> "None", nursing_group |-> "LBS2", nta_score |-> 0],
               [slp_group |-> "SLP", nursing_group |-> "ES1", nta_score |-> 7]},
        s \in ScoreServices, dr \in {RInt(0), Rat(35, 100)},
        c \in {RInt(50), RInt(85), RInt(100)}, n \in ClinicalNotes}

\* dicts a caller assigns to engine.thresholds
ThresholdOverrides == {[accept |-> 80, defer |-> 50], [accept |-> 50, defer |-> 20]}

\* scores around the default and the overriding thresholds
RecommendationScores ==
    {RInt(k) : k \in (0 - 5)..105}
    \cup {Rat(399, 10), Rat(699, 10), Rat(701, 10)}

\* pipeline calls that may run between two scoring calls
BetweenCalls ==
    {RevenueCall("medicare_ffs", SmallMedicareRates,
                 [slp_group |-> "SLP", nursing_group |-> "ES1", nta_score |-> 7], 21, Null),
     [op |-> "estimate_total_cost", cost_model_data |-> EmptyDict, los |-> 15,
      special_services |-> Val({"iv_abx"}), needs_transport |-> TRUE,
      projected_revenue |-> RInt(6000), payer_type |-> "ma_commercial",
      auth_status |-> "pending"],
     [op |-> "classify_patient",
      extracted_data |-> [primary_diagnosis |-> Val(I50_9), comorbidities |-> Val(<<J44_0>>),
                          functional_status |-> Absent, therapy_needs |-> Absent,
                          special_services |-> Absent]]}

PipelineCall(t, c) ==
    CASE c.op = "calculate_revenue" ->
            calculate_revenue(t, c.payer_type, c.rate_data, c.pdpm_groups, c.los,
                              c.facility_data)
      [] c.op = "estimate_total_cost" ->
            estimate_total_cost(t, c.cost_model_data, c.los, c.special_services,
                                c.needs_transport, c.projected_revenue, c.payer_type,
                                c.auth_status)
      [] c.op = "classify_patient" -> classify_patient(t, c.extracted_data)

\* notes that spell high-risk phrases in lower case, with capitals, or not at all
ReadmitNotes ==
    {Val(lower \cup upper \cup other) :
        lower \in {Text(p) : p \in SUBSET high_risk_terms},
        upper \in {{[phrase |-> t, upper |-> TRUE] : t \in p} :
                      p \in {{}, {"unstable"}, {"falls risk", "poor compliance"},
                              high_risk_terms}},
        other \in {{}, Text({"stable gait"})}}

\* scoring calls for admissions with and without a prior readmission history;
\* has_history is a fact of the admission, calculate_margin_score has no parameter
\* for it
ReadmitScoreCalls ==
    {[op |-> "calculate_margin_score", business_weights |-> w,
      projected_revenue |-> RInt(6000), projected_cost |-> RInt(4500), los |-> 15,
      pdpm_groups |-> [slp_group |-> "None", nursing_group |-> "LBS2", nta_score |-> 0],
      special_services |-> Null, denial_risk |-> RInt(0),
      current_census_pct |-> RInt(85), target_census_pct |-> RInt(90),
      clinical_notes |-> n, has_history |-> h] :
        w \in {Null, Val(PenaltyHeavyWeights)}, n \in ReadmitNotes, h \in BOOLEAN}

ReadmitPenaltyCalls ==
    [op : {"calculate_readmit_risk_penalty"}, business_weights : {Null},
     clinical_notes : ReadmitNotes, has_history : BOOLEAN]

----------------------------------------------------------------------------
(* Specification of the scoring calls                                      *)

Score(self, c) ==
    calculate_margin_score(self, c.projected_revenue, c.projected_cost, c.los,
                           c.pdpm_groups, c.special_services, c.denial_risk,
                           c.current_census_pct, c.target_census_pct, c.clinical_notes)

InitScore ==
    /\ tables = Tables0
    /\ engine = NotConstructed
    /\ call \in ScoreCalls
    /\ ret = NotCalled
    /\ aux = NotCalled
    /\ prev = NotCalled
    /\ reqs = RequestsIdle
    /\ db = EmptyDb
    /\ files = {}
    /\ session = EmptySession
    /\ now = 0

ConstructScoringEngine ==
    /\ engine = NotConstructed
    /\ engine' = ScoringEngine_init(tables, call.business_weights)
    /\ UNCHANGED <<now, files, session, db, tables, call, ret, aux, prev, reqs>>

CalculateMarginScore ==
    /\ call.op = "calculate_margin_score"
    /\ engine # NotConstructed
    /\ ret = NotCalled
    /\ ret' = Score(engine, call)
    /\ engine' = ScoringEngineAfter(engine, "calculate_margin_score")
    /\ UNCHANGED <<now, files, session, db, tables, call, aux, prev, reqs>>

GetRecommendation ==
    /\ Returned(ret)
    /\ aux = NotCalled
    /\ prev = NotCalled
    /\ LET score == RInt(IntOf(ret.val.final_score))
       IN  aux' = [exc |-> "none", val |-> get_recommendation(tables, engine, score),
                   score |-> score]
    /\ engine' = ScoringEngineAfter(engine, "get_recommendation")
    /\ UNCHANGED <<now, files, session, db, tables, call, ret, prev, reqs>>

OtherPipelineCall ==
    /\ Returned(ret)
    /\ aux = NotCalled
    /\ prev = NotCalled
    /\ \E c \in BetweenCalls : aux' = PipelineCall(tables, c)
    /\ UNCHANGED <<now, files, session, db, tables, engine, call, ret, prev, reqs>>

\* a second scoring call on the same engine: any (revenue, cost, los), all else as before
CalculateMarginScoreAgain ==
    /\ Returned(ret)
    /\ prev = NotCalled
    /\ \E f \in FinancialInputs :
          LET c == [call EXCEPT !.projected_revenue = f[1], !.projected_cost = f[2],
                                !.los = f[3]]
          IN  /\ call' = c
              /\ ret' = Score(engine, c)
    /\ prev' = [call |-> call, ret |-> ret]
    /\ engine' = ScoringEngineAfter(engine, "calculate_margin_score")
    /\ UNCHANGED <<now, files, session, db, tables, aux, reqs>>

NextScore ==
    \/ ConstructScoringEngine
    \/ CalculateMarginScore
    \/ GetRecommendation
    \/ OtherPipelineCall
    \/ CalculateMarginScoreAgain

SpecScore == InitScore /\ [][NextScore]_vars

----------------------------------------------------------------------------
(* Specification of the readmission-risk penalty                           *)

InitReadmit ==
    /\ tables = Tables0
    /\ engine = NotConstructed
    /\ call \in ReadmitScoreCalls \cup ReadmitPenaltyCalls
    /\ ret = NotCalled
    /\ aux = NotCalled
    /\ prev = NotCalled
    /\ reqs = RequestsIdle
    /\ db = EmptyDb
    /\ files = {}
    /\ session = EmptySession
    /\ now = 0

CalculateReadmitRiskPenalty ==
    /\ call.op = "calculate_readmit_risk_penalty"
    /\ engine # NotConstructed
    /\ ret = NotCalled
    /\ ret' = Return(calculate_readmit_risk_penalty(call.clinical_notes.v, call.has_history))
    /\ UNCHANGED <<now, files, session, db, tables, engine, call, aux, prev, reqs>>

NextReadmit ==
    \/ ConstructScoringEngine
    \/ CalculateMarginScore
    \/ CalculateReadmitRiskPenalty

SpecReadmit == InitReadmit /\ [][NextReadmit]_vars

----------------------------------------------------------------------------
(* Specification of the recommendation calls                               *)

InitRecommend ==
    /\ tables = Tables0
    /\ engine = NotConstructed
    /\ call \in {[op |-> "get_recommendation", business_weights |-> w] :
                    w \in BusinessWeights}
    /\ ret = NotCalled
    /\ aux = NotCalled
    /\ prev = NotCalled
    /\ reqs = RequestsIdle
    /\ db = EmptyDb
    /\ files = {}
    /\ session = EmptySession
    /\ now = 0

\* a caller's engine.thresholds = {...} on a fresh engine
OverrideThresholds ==
    /\ engine # NotConstructed
    /\ engine.thresholds = SharedThresholds
    /\ aux = NotCalled
    /\ \E d \in ThresholdOverrides :
          engine' = [engine EXCEPT !.thresholds = [ref |-> "instance", dict |-> d]]
    /\ UNCHANGED <<now, files, session, db, tables, call, ret, aux, prev, reqs>>

\* get_recommendation called directly with a score
GetRecommendationOfScore ==
    /\ engine # NotConstructed
    /\ aux = NotCalled
    /\ \E score \in RecommendationScores :
          aux' = [exc |-> "none", val |-> get_recommendation(tables, engine, score),
                  score |-> score]
    /\ engine' = ScoringEngineAfter(engine, "get_recommendation")
    /\ UNCHANGED <<now, files, session, db, tables, call, ret, prev, reqs>>

NextRecommend ==
    \/ ConstructScoringEngine
    \/ OverrideThresholds
    \/ GetRecommendationOfScore

SpecRecommend == InitRecommend /\ [][NextRecommend]_vars

----------------------------------------------------------------------------
(* The two documented scenarios, scored as new_admission scores them: a    *)
(* default ScoringEngine, target census 90, get_recommendation on          *)
(* int(final_score)                                                        *)

\* seed_database.py: the Family Care matrices of the two facilities, and a matrix
\* whose HBS2 rate gives the seeded projection of 142,600 over 90 days
ScenarioFamilyCareRates ==
    {[nursing_matrix |-> [HBS2 |-> RInt(275), LBS2 |-> RInt(240)],
      nta_matrix |-> ("12+" :> RInt(100)) @@ ("0-5" :> RInt(70))],
     [nursing_matrix |-> [HBS2 |-> RInt(265), LBS2 |-> RInt(230)],
      nta_matrix |-> ("12+" :> RInt(95)) @@ ("0-5" :> RInt(65))],
     [nursing_matrix |-> [HBS2 |-> Rat(13360, 9)],
      nta_matrix |-> ("12+" :> RInt(100))]}

\* projected cost minus projected revenue, in dollars over the stay
CostExcesses == {0 - 900, 0, 1, 90, 2159, 2160, 2161, 2249, 2250, 9000, 25800}

DementiaCalls ==
    {[scenario |-> "advanced_dementia", business_weights |-> Null, rate_data |-> r,
      pdpm_groups |-> [pt_group |-> "TE", ot_group |-> "TE", slp_group |-> "SLP",
                       nursing_group |-> "HBS2", nta_score |-> 12],
      los |-> 90, cost_excess |-> x, special_services |-> s, denial_risk |-> dr,
      current_census_pct |-> c, clinical_notes |-> n] :
        r \in ScenarioFamilyCareRates, x \in CostExcesses,
        s \in {Val({}), Val({"wound_vac"})},
        dr \in {Rat(3, 100), Rat(18, 100)},
        c \in {RInt(50), RInt(85), RInt(100)},
        n \in {Val({}), Val(Text({"falls risk"}))}}

HipCalls ==
    {[scenario |-> "hip_replacement", business_weights |-> Null,
      projected_revenue |-> RInt(218450), projected_cost |-> RInt(132600),
      pdpm_groups |-> g, los |-> 22, special_services |-> s, denial_risk |-> dr,
      current_census_pct |-> c, clinical_notes |-> n] :
        g \in {[pt_group |-> "TA", ot_group |-> "TA", slp_group |-> "None",
                 nursing_group |-> "LBS1", nta_score |-> 1],
                [pt_group |-> "TA", ot_group |-> "TA", slp_group |-> "SA",
                 nursing_group |-> "ES1", nta_score |-> 6]},
        s \in {Null, Val({}), Val({"iv_abx"}),
                Val({"dialysis", "trach", "wound_vac", "iv_abx"})},
        dr \in {RInt(0), Rat(2, 100), Rat(15, 100), Rat(25, 100)},
        c \in {RInt(50), RInt(85), RInt(90), RInt(100)},
        n \in {Val({}), Val(Text({"falls risk"})), Val(Text(high_risk_terms))}}

InitScenario ==
    /\ tables = Tables0
    /\ engine = NotConstructed
    /\ call \in DementiaCalls \cup HipCalls
    /\ ret = NotCalled
    /\ aux = NotCalled
    /\ prev = NotCalled
    /\ reqs = RequestsIdle
    /\ db = EmptyDb
    /\ files = {}
    /\ session = EmptySession
    /\ now = 0

\* Step 4 of the dementia scenario: revenue from the Family Care matrices
ScenarioRevenue ==
    /\ call.scenario = "advanced_dementia"
    /\ aux = NotCalled
    /\ aux' = calculate_revenue(tables, "family_care_wi", call.rate_data,
                                call.pdpm_groups, call.los, Null)
    /\ UNCHANGED <<now, files, session, db, tables, engine, call, ret, prev, reqs>>

ScenarioRevenueOf(c, revenue_result) ==
    IF c.scenario = "hip_replacement" THEN c.projected_revenue
    ELSE revenue_result.val.total_revenue

ScenarioCostOf(c, revenue_result) ==
    IF c.scenario = "hip_replacement" THEN c.projected_cost
    ELSE RAdd(revenue_result.val.total_revenue, RInt(c.cost_excess))

\* Step 7
ScenarioScore ==
    /\ engine # NotConstructed
    /\ ret = NotCalled
    /\ call.scenario = "hip_replacement" \/ Returned(aux)
    /\ ret' = calculate_margin_score(engine, ScenarioRevenueOf(call, aux),
                                     ScenarioCostOf(call, aux), call.los,
                                     call.pdpm_groups, call.special_services,
                                     call.denial_risk, call.current_census_pct,
                                     RInt(90), call.clinical_notes)
    /\ engine' = ScoringEngineAfter(engine, "calculate_margin_score")
    /\ UNCHANGED <<now, files, session, db, tables, call, aux, prev, reqs>>

ScenarioRecommend ==
    /\ Returned(ret)
    /\ prev = NotCalled
    /\ LET score == RInt(IntOf(ret.val.final_score))
       IN  prev' = [exc |-> "none", val |-> get_recommendation(tables, engine, score),
                    score |-> score]
    /\ engine' = ScoringEngineAfter(engine, "get_recommendation")
    /\ UNCHANGED <<now, files, session, db, tables, call, ret, aux, reqs>>

NextScenario ==
    \/ ConstructScoringEngine
    \/ ScenarioRevenue
    \/ ScenarioScore
    \/ ScenarioRecommend

SpecScenario == InitScenario /\ [][NextScenario]_vars

----------------------------------------------------------------------------
(* Rate: the rows of the rates table                                       *)
(* A row keeps facility_id, payer_id, payer_type, effective_date and       *)
(* end_date; organization_id and rate_data take no part in which row is    *)
(* in force and are left out.  Dates are day numbers.                      *)

RATE_TYPES == {"medicare_ffs", "ma_commercial", "medicaid_wi", "family_care_wi"}

\* Rate.create: validates payer_type only, then INSERTs
Rate_create(d, facility_id, payer_id, payer_type, effective_date, end_date) ==
    IF payer_type \notin RATE_TYPES
    THEN [db |-> d, ret |-> Raise("ValueError: Invalid payer type")]
    ELSE LET row == [id |-> d.rate_seq + 1, facility_id |-> facility_id,
                     payer_id |-> payer_id, payer_type |-> payer_type,
                     effective_date |-> effective_date, end_date |-> end_date]
         IN  [db |-> [d EXCEPT !.rates = d.rates \cup {row}, !.rate_seq = d.rate_seq + 1],
              ret |-> Return(row)]

\* effective_date <= ? AND (end_date IS NULL OR end_date >= ?)
InForce(row, as_of_date) ==
    /\ row.effective_date <= as_of_date
    /\ (row.end_date = Null \/ row.end_date.v >= as_of_date)

\* the rows get_current_rate's WHERE clause selects
CurrentRateRows(d, facility_id, payer_id, payer_type, as_of_date) ==
    {row \in d.rates : /\ row.facility_id = facility_id
                        /\ row.payer_id = payer_id
                        /\ row.payer_type = payer_type
                        /\ InForce(row, as_of_date)}

\* ORDER BY effective_date DESC LIMIT 1: any row of the latest effective_date
get_current_rate(d, facility_id, payer_id, payer_type, as_of_date) ==
    LET rows == CurrentRateRows(d, facility_id, payer_id, payer_type, as_of_date)
    IN  IF rows = {} THEN {Return(None)}
        ELSE {Return(row) : row \in
                 {r \in rows : \A o \in rows : o.effective_date <= r.effective_date}}

\* Rate.update on the object self: an argument that is None keeps self's value
Rate_update(d, self, effective_date, end_date) ==
    LET updated == [self EXCEPT
                      !.effective_date = IF effective_date # Null THEN effective_date.v
                                         ELSE self.effective_date,
                      !.end_date = IF end_date # Null THEN end_date ELSE self.end_date]
    IN  [d EXCEPT !.rates = {IF row.id = self.id THEN updated ELSE row : row \in d.rates}]

\* Rate.delete
Rate_delete(d, self) == [d EXCEPT !.rates = {row \in d.rates : row.id # self.id}]

MaxRates == 2
MaxDate == 3

Dates == 1 .. MaxDate
OptionalDates == {Null} \cup {Val(day) : day \in Dates}
FacilityIds == {1}
PayerIds == {1, 2}
RatePayerTypes == {"medicare_ffs", "ma_commercial", "MA"}

InitRates ==
    /\ tables = Tables0
    /\ engine = NotConstructed
    /\ call = [op |-> "rates"]
    /\ ret = NotCalled
    /\ aux = NotCalled
    /\ prev = NotCalled
    /\ reqs = RequestsIdle
    /\ db = EmptyDb
    /\ files = {}
    /\ session = EmptySession
    /\ now = 0

RateCreate ==
    /\ db.rate_seq < MaxRates
    /\ \E f \in FacilityIds, p \in PayerIds, ty \in RatePayerTypes,
          eff \in Dates, end \in OptionalDates :
          LET r == Rate_create(db, f, p, ty, eff, end)
          IN  db' = r.db /\ ret' = r.ret
    /\ UNCHANGED <<now, files, session, tables, engine, call, aux, prev, reqs>>

\* update of a Rate object just loaded by get_by_id
RateUpdate ==
    /\ \E self \in db.rates, eff \in OptionalDates, end \in OptionalDates :
          db' = Rate_update(db, self, eff, end)
    /\ ret' = Return(None)
    /\ UNCHANGED <<now, files, session, tables, engine, call, aux, prev, reqs>>

RateDelete ==
    /\ \E self \in db.rates : db' = Rate_delete(db, self)
    /\ ret' = Return(None)
    /\ UNCHANGED <<now, files, session, tables, engine, call, aux, prev, reqs>>

GetCurrentRate ==
    /\ \E f \in FacilityIds, p \in PayerIds, ty \in RatePayerTypes, day \in Dates :
          ret' \in get_current_rate(db, f, p, ty, day)
    /\ UNCHANGED <<now, files, session, db, tables, engine, call, aux, prev, reqs>>

NextRates ==
    \/ RateCreate
    \/ RateUpdate
    \/ RateDelete
    \/ GetCurrentRate

SpecRates == InitRates /\ [][NextRates]_vars

----------------------------------------------------------------------------
(* new_admission: the assessment pipeline of one request                   *)

rate_type_mapping ==
    ("Medicare FFS" :> "medicare_ffs") @@ ("Medicare Advantage" :> "ma_commercial")
    @@ ("Medicaid FFS" :> "medicaid_wi") @@ ("Family Care" :> "family_care_wi")
    @@ ("Commercial" :> "ma_commercial")

\* what a pipeline operation leaves in the tables after a write to the thresholds
TablesAfter_threshold_write(t, op) ==
    IF op = "calculate_margin_score" THEN [t EXCEPT !.SCORE_THRESHOLDS.accept = 0] ELSE t

\* what a pipeline operation leaves in the class-level tables and Config defaults:
\* none of them assigns to a table or to an entry of one
TablesAfter(t, op) == t

NewRequest(scenario) ==
    [pc |-> "received", scenario |-> scenario, scorer |-> NotConstructed,
     pdpm_groups |-> NotCalled, payer_type |-> None, rate_data |-> NotCalled,
     revenue_result |-> NotCalled, cost_result |-> NotCalled, score_result |-> NotCalled,
     margin_score |-> 0 - 1, recommendation |-> None, error |-> None]

Failed(r, exc) == [r EXCEPT !.pc = "error", !.error = exc]

\* "Initialize services"
InitializeServices(t, r) ==
    [r EXCEPT !.pc = "initialized", !.scorer = ScoringEngine_init(t, Null)]

\* Step 2
StepClassify(t, r) ==
    LET pdpm_groups == classify_patient(t, r.scenario.extracted_data)
    IN  IF Raised(pdpm_groups) THEN Failed(r, pdpm_groups.exc)
        ELSE [r EXCEPT !.pc = "classified", !.pdpm_groups = pdpm_groups.val]

\* Steps 3 and 4: rate_type_mapping.get(payer.type, Rate.MEDICARE_FFS), then
\* Rate.get_current_rate(facility_id, payer_id, payer_type)
StepLookupRate(t, r) ==
    LET payer_type == DGet(rate_type_mapping, r.scenario.payer.type, "medicare_ffs")
    IN  IF payer_type \notin DOMAIN r.scenario.payer.rates
        THEN [r EXCEPT !.pc = "no_rate", !.payer_type = payer_type]
        ELSE [r EXCEPT !.pc = "rated", !.payer_type = payer_type,
                       !.rate_data = Return(r.scenario.payer.rates[payer_type])]

\* all_extracted_data['estimated_los'], set from the form value when not extracted
final_los(scenario) ==
    IF scenario.extracted_los = Absent \/ scenario.extracted_los = Null
          \/ scenario.extracted_los = Val(0)
    THEN scenario.estimated_los
    ELSE scenario.extracted_los.v

\* Step 5
StepRevenue(t, r) ==
    LET revenue_result ==
            calculate_revenue(t, r.payer_type, r.rate_data.val, r.pdpm_groups,
                              final_los(r.scenario), Val(r.scenario.facility))
    IN  IF Raised(revenue_result) THEN Failed(r, revenue_result.exc)
        ELSE [r EXCEPT !.pc = "revenue", !.revenue_result = revenue_result]

acuity_band(pdpm_groups) ==
    LET nursing_group == DGet(pdpm_groups, "nursing_group", "LBS2")
    IN  IF nursing_group \in {"ES1", "ES2"} THEN "complex"
        ELSE IF nursing_group \in {"HBS1", "HBS2"} THEN "high"
        ELSE IF nursing_group \in {"LBS1"} THEN "medium"
        ELSE "low"

\* Step 6
StepCost(t, r) ==
    LET band == acuity_band(r.pdpm_groups)
        cost_model_data ==
            IF band \in DOMAIN r.scenario.cost_models THEN r.scenario.cost_models[band]
            ELSE [acuity_band |-> band, nursing_hours |-> RInt(4), hourly_rate |-> RInt(35),
                  supply_cost |-> RInt(50)]
        cost_result ==
            estimate_total_cost(t, cost_model_data, final_los(r.scenario),
                                Get(r.scenario.extracted_data.special_services, {}), TRUE,
                                r.revenue_result.val.total_revenue, r.payer_type,
                                r.scenario.auth_status)
    IN  IF Raised(cost_result) THEN Failed(r, cost_result.exc)
        ELSE [r EXCEPT !.pc = "cost", !.cost_result = cost_result]

\* Step 7, calculate_margin_score
StepScore(t, r) ==
    LET score_result ==
            calculate_margin_score(r.scorer, r.revenue_result.val.total_revenue,
                                   r.cost_result.val.total_cost, final_los(r.scenario),
                                   r.pdpm_groups,
                                   Get(r.scenario.extracted_data.special_services, {}),
                                   r.cost_result.val.denial_risk.denial_probability,
                                   r.scenario.current_census_pct, RInt(90),
                                   Get(r.scenario.clinical_notes, {}))
    IN  IF Raised(score_result) THEN Failed(r, score_result.exc)
        ELSE [r EXCEPT !.pc = "scored", !.score_result = score_result]

\* Step 7, get_recommendation on int(final_score); Step 8 is SaveAdmission
StepRecommend(t, r) ==
    LET margin_score == IntOf(r.score_result.val.final_score)
    IN  [r EXCEPT !.pc = "recommended", !.margin_score = margin_score,
                  !.recommendation = get_recommendation(t, r.scorer, RInt(margin_score))]

FinishedPc == {"recommended", "error", "no_rate"}

Advance(t, r) ==
    CASE r.pc = "received" -> InitializeServices(t, r)
      [] r.pc = "initialized" -> StepClassify(t, r)
      [] r.pc = "classified" -> StepLookupRate(t, r)
      [] r.pc = "rated" -> StepRevenue(t, r)
      [] r.pc = "revenue" -> StepCost(t, r)
      [] r.pc = "cost" -> StepScore(t, r)
      [] r.pc = "scored" -> StepRecommend(t, r)
      [] OTHER -> r

\* the request processed from start to end with nothing else running
RECURSIVE RunAlone(_, _)
RunAlone(t, r) == IF r.pc \in FinishedPc THEN r ELSE RunAlone(t, Advance(t, r))

----------------------------------------------------------------------------
(* Requests handled by new_admission                                       *)

NumReq == 2

WholeDollarMedicareRates ==
    [pt_component |-> RInt(50), ot_component |-> RInt(50), slp_component |-> RInt(50),
     nursing_component |-> RInt(100), nta_component |-> RInt(100), non_case_mix |-> RInt(100)]

PlainFacility == [wage_index |-> RInt(1), vbp_multiplier |-> RInt(1)]

HipReplacement ==
    [primary_diagnosis |-> Val(Z96_641), comorbidities |-> Val(<<E11_9>>),
     functional_status |-> Val([adl_score |-> Val(16)]), therapy_needs |-> Val([slp |-> TRUE]),
     special_services |-> Val({})]

HeartFailureOnDialysis ==
    [primary_diagnosis |-> Val(I50_9), comorbidities |-> Val(<<J44_0, E11_9>>),
     functional_status |-> Absent, therapy_needs |-> Absent,
     special_services |-> Val({"dialysis"})]

HighCostModel ==
    [id |-> 1, facility_id |-> 1, acuity_band |-> "complex", nursing_hours |-> Rat(11, 2),
     hourly_rate |-> RInt(38), supply_cost |-> RInt(65), pharmacy_addon |-> RInt(0),
     transport_cost |-> RInt(0)]

\* payers.type is free text in the schema, whose comment lists 'MA' among the values
Scenarios ==
    {[name |-> "medicare_hip", extracted_data |-> HipReplacement, extracted_los |-> Absent,
      clinical_notes |-> Absent, estimated_los |-> 15,
      payer |-> [type |-> "Medicare FFS",
                 rates |-> [medicare_ffs |-> WholeDollarMedicareRates]],
      facility |-> PlainFacility, auth_status |-> "granted",
      current_census_pct |-> RInt(80), cost_models |-> EmptyDict],
     [name |-> "advantage_dialysis", extracted_data |-> HeartFailureOnDialysis,
      extracted_los |-> Val(20), clinical_notes |-> Val(Text({"unstable", "falls risk"})),
      estimated_los |-> 15,
      payer |-> [type |-> "Medicare Advantage", rates |-> [ma_commercial |-> EmptyDict]],
      facility |-> PlainFacility, auth_status |-> "pending",
      current_census_pct |-> RInt(95), cost_models |-> [complex |-> HighCostModel]],
     [name |-> "legacy_ma_with_ffs_rate", extracted_data |-> HipReplacement,
      extracted_los |-> Val(10), clinical_notes |-> Val({}), estimated_los |-> 15,
      payer |-> [type |-> "MA",
                 rates |-> [medicare_ffs |-> WholeDollarMedicareRates,
                            ma_commercial |-> EmptyDict]],
      facility |-> PlainFacility, auth_status |-> "unknown",
      current_census_pct |-> RInt(85), cost_models |-> EmptyDict],
     [name |-> "legacy_ma_without_ffs_rate", extracted_data |-> HipReplacement,
      extracted_los |-> Absent, clinical_notes |-> Absent, estimated_los |-> 15,
      payer |-> [type |-> "MA", rates |-> [ma_commercial |-> EmptyDict]],
      facility |-> PlainFacility, auth_status |-> "unknown",
      current_census_pct |-> RInt(85), cost_models |-> EmptyDict],
     [name |-> "medicaid_zero_los", extracted_data |-> HeartFailureOnDialysis,
      extracted_los |-> Val(0), clinical_notes |-> Absent, estimated_los |-> 0,
      payer |-> [type |-> "Medicaid FFS", rates |-> [medicaid_wi |-> EmptyDict]],
      facility |-> PlainFacility, auth_status |-> "granted",
      current_census_pct |-> RInt(85), cost_models |-> EmptyDict]}

----------------------------------------------------------------------------
(* Uploads of a new_admission POST: FileStorage, DocumentParser and        *)
(* Admission.create                                                        *)

\* Config.ALLOWED_EXTENSIONS
ALLOWED_EXTENSIONS == {"pdf", "docx", "doc", "jpg", "jpeg", "png"}

\* a filename is [stem, ext]: ext is the lower-cased text after the last dot, "" when
\* the name has no dot
allowed_file(filename) == filename.ext # "" /\ filename.ext \in ALLOWED_EXTENSIONS

\* FileStorage.save_file on local storage: an infected file is removed and the call
\* raises; a clean file is stored under a key made of the second of the upload and
\* the secured filename (one request, one second: the key is the filename)
save_file(storage, file) ==
    IF file.scan = "infected"
    THEN [files |-> storage, ret |-> Raise("Exception: File rejected")]
    ELSE [files |-> storage \cup {file.filename}, ret |-> Return(file.filename)]

\* FileStorage.delete_file: removes the file and returns True (False, which no caller
\* reads, when the storage refuses)
delete_file(storage, file_key) == storage \ {file_key}

\* the upload loop over the posted files, from the k-th on: [files, saved, exc]
RECURSIVE SaveUploads(_, _, _, _)
SaveUploads(storage, uploads, k, saved) ==
    IF k > Len(uploads) THEN [files |-> storage, saved |-> saved, exc |-> None]
    ELSE IF ~allowed_file(uploads[k].filename)
    THEN SaveUploads(storage, uploads, k + 1, saved)
    ELSE LET s == save_file(storage, uploads[k])
         IN  IF Raised(s.ret) THEN [files |-> s.files, saved |-> saved, exc |-> s.ret.exc]
             ELSE SaveUploads(s.files, uploads, k + 1, Append(saved, s.ret.val))

\* uploaded_files: the keys saved for each form field
UploadedFiles(uploads, saved) ==
    {<<u.field, u.filename>> : u \in {uploads[k] : k \in 1 .. Len(uploads)} \cap
                                     {u \in {uploads[k] : k \in 1 .. Len(uploads)} :
                                        \E j \in 1 .. Len(saved) : saved[j] = u.filename}}

\* Step 1: whether parsing the saved files leaves all_extracted_data non-empty; a
\* document that cannot be parsed is logged and skipped, a blank one extracts {}
ExtractsData(uploads, saved) ==
    \E k \in 1 .. Len(uploads) :
        /\ \E j \in 1 .. Len(saved) : saved[j] = uploads[k].filename
        /\ uploads[k].document = "clinical"

\* the keyword arguments new_admission passes to Admission.create
CreateArguments(r, uploaded_files, scenario) ==
    [facility_id |-> 1, payer_id |-> 1, uploaded_files |-> uploaded_files,
     extracted_data |-> scenario.extracted_data, pdpm_groups |-> r.pdpm_groups,
     projected_revenue |-> r.revenue_result.val.total_revenue,
     projected_cost |-> r.cost_result.val.total_cost,
     projected_los |-> final_los(scenario), margin_score |-> r.margin_score,
     recommendation |-> r.recommendation]

\* Admission.create(organization_id, facility_id, payer_id, ...): organization_id has
\* no default, a call without it raises TypeError; extracted_data is stored as {}
Admission_create(d, kwargs) ==
    IF "organization_id" \notin DOMAIN kwargs
    THEN [db |-> d, ret |-> Raise("TypeError")]
    ELSE LET row == [id |-> d.admission_seq + 1,
                     facility_id |-> kwargs.facility_id, payer_id |-> kwargs.payer_id,
                     uploaded_files |-> kwargs.uploaded_files, extracted_data |-> {},
                     pdpm_groups |-> kwargs.pdpm_groups,
                     margin_score |-> kwargs.margin_score,
                     recommendation |-> kwargs.recommendation]
         IN  [db |-> [d EXCEPT !.admissions = d.admissions \cup {row},
                               !.admission_seq = d.admission_seq + 1],
              ret |-> Return(row)]

\* UPDATE admissions SET uploaded_files = '{}' WHERE id = ?
ClearUploadedFiles(d, id) ==
    [d EXCEPT !.admissions =
        {IF row.id = id THEN [row EXCEPT !.uploaded_files = {}] ELSE row :
            row \in d.admissions}]

\* the deletion loop over saved_file_paths
RECURSIVE DeleteSaved(_, _, _)
DeleteSaved(storage, saved, k) ==
    IF k > Len(saved) THEN storage
    ELSE DeleteSaved(delete_file(storage, saved[k]), saved, k + 1)

Redirect(endpoint, category) ==
    Return([redirect |-> endpoint, flash |-> category])

\* the except clause of new_admission: log, flash, redirect to the form
ExceptionRedirect == Redirect("admission.new_admission", "error")

MaxUploads == 2

FieldNames == <<"discharge_summary", "therapy_evals", "nursing_notes">>

FieldIndex(field) == CHOOSE i \in 1 .. Len(FieldNames) : FieldNames[i] = field

PostedFiles ==
    {[field |-> "discharge_summary", filename |-> [stem |-> "summary", ext |-> "pdf"],
      scan |-> "clean", document |-> "clinical"],
     [field |-> "therapy_evals", filename |-> [stem |-> "eval", ext |-> "docx"],
      scan |-> "clean", document |-> "blank"],
     [field |-> "therapy_evals", filename |-> [stem |-> "scan", ext |-> "pdf"],
      scan |-> "infected", document |-> "clinical"],
     [field |-> "nursing_notes", filename |-> [stem |-> "notes", ext |-> "png"],
      scan |-> "clean", document |-> "unreadable"],
     [field |-> "nursing_notes", filename |-> [stem |-> "tool", ext |-> "exe"],
      scan |-> "clean", document |-> "clinical"],
     [field |-> "nursing_notes", filename |-> [stem |-> "README", ext |-> ""],
      scan |-> "clean", document |-> "clinical"]}

\* the posted files in the order the handler walks the form fields
UploadLists ==
    {u \in UNION {[1 .. n -> PostedFiles] : n \in 0 .. MaxUploads} :
        \A i, j \in 1 .. Len(u) :
            i < j => FieldIndex(u[i].field) <= FieldIndex(u[j].field)}

UploadCalls ==
    [op : {"new_admission"}, form_valid : BOOLEAN, uploads : UploadLists,
     scenario : Scenarios, facility_found : BOOLEAN, payer_found : BOOLEAN]

----------------------------------------------------------------------------
(* Specification of concurrent new_admission requests                      *)

InitAdmission ==
    /\ tables = Tables0
    /\ engine = NotConstructed
    /\ call = NotCalled
    /\ ret = NotCalled
    /\ aux = NotCalled
    /\ prev = NotCalled
    /\ reqs \in [1 .. NumReq -> {NewRequest(sc) : sc \in Scenarios}]
    /\ db = EmptyDb
    /\ files = {}
    /\ session = EmptySession
    /\ now = 0

ReqInitializeServices ==
    \E i \in 1 .. NumReq :
        /\ reqs[i].pc = "received"
        /\ reqs' = [reqs EXCEPT ![i] = InitializeServices(tables, reqs[i])]
        /\ tables' = TablesAfter(tables, "ScoringEngine")
        /\ UNCHANGED <<now, files, session, db, engine, call, ret, aux, prev>>

ReqClassifyPatient ==
    \E i \in 1 .. NumReq :
        /\ reqs[i].pc = "initialized"
        /\ reqs' = [reqs EXCEPT ![i] = StepClassify(tables, reqs[i])]
        /\ tables' = TablesAfter(tables, "classify_patient")
        /\ UNCHANGED <<now, files, session, db, engine, call, ret, aux, prev>>

ReqLookupRate ==
    \E i \in 1 .. NumReq :
        /\ reqs[i].pc = "classified"
        /\ reqs' = [reqs EXCEPT ![i] = StepLookupRate(tables, reqs[i])]
        /\ tables' = TablesAfter(tables, "get_current_rate")
        /\ UNCHANGED <<now, files, session, db, engine, call, ret, aux, prev>>

ReqCalculateRevenue ==
    \E i \in 1 .. NumReq :
        /\ reqs[i].pc = "rated"
        /\ reqs' = [reqs EXCEPT ![i] = StepRevenue(tables, reqs[i])]
        /\ tables' = TablesAfter(tables, "calculate_revenue")
        /\ UNCHANGED <<now, files, session, db, engine, call, ret, aux, prev>>

ReqEstimateTotalCost ==
    \E i \in 1 .. NumReq :
        /\ reqs[i].pc = "revenue"
        /\ reqs' = [reqs EXCEPT ![i] = StepCost(tables, reqs[i])]
        /\ tables' = TablesAfter(tables, "estimate_total_cost")
        /\ UNCHANGED <<now, files, session, db, engine, call, ret, aux, prev>>

ReqCalculateMarginScore ==
    \E i \in 1 .. NumReq :
        /\ reqs[i].pc = "cost"
        /\ reqs' = [reqs EXCEPT ![i] = StepScore(tables, reqs[i])]
        /\ tables' = TablesAfter(tables, "calculate_margin_score")
        /\ UNCHANGED <<now, files, session, db, engine, call, ret, aux, prev>>

ReqGetRecommendation ==
    \E i \in 1 .. NumReq :
        /\ reqs[i].pc = "scored"
        /\ reqs' = [reqs EXCEPT ![i] = StepRecommend(tables, reqs[i])]
        /\ tables' = TablesAfter(tables, "get_recommendation")
        /\ UNCHANGED <<now, files, session, db, engine, call, ret, aux, prev>>

NextAdmission ==
    \/ ReqInitializeServices
    \/ ReqClassifyPatient
    \/ ReqLookupRate
    \/ ReqCalculateRevenue
    \/ ReqEstimateTotalCost
    \/ ReqCalculateMarginScore
    \/ ReqGetRecommendation

SpecAdmission == InitAdmission /\ [][NextAdmission]_vars

----------------------------------------------------------------------------
(* Specification of one new_admission POST and its uploaded files          *)

InitUpload ==
    /\ tables = Tables0
    /\ engine = NotConstructed
    /\ call \in UploadCalls
    /\ ret = NotCalled
    /\ aux = NotCalled
    /\ prev = NotCalled
    /\ reqs = RequestsIdle
    /\ db = EmptyDb
    /\ files = {}
    /\ session = EmptySession
    /\ now = 0

\* form fields, then the upload loop
SaveUploadedFiles ==
    /\ call.op = "new_admission"
    /\ aux = NotCalled
    /\ ret = NotCalled
    /\ IF ~call.form_valid
       THEN /\ aux' = [pc |-> "done", saved_file_paths |-> <<>>]
            /\ ret' = ExceptionRedirect
            /\ UNCHANGED files
       ELSE LET s == SaveUploads(files, call.uploads, 1, <<>>)
            IN  /\ files' = s.files
                /\ IF s.exc # None
                   THEN /\ aux' = [pc |-> "done", saved_file_paths |-> s.saved]
                        /\ ret' = ExceptionRedirect
                   ELSE IF s.saved = <<>>
                   THEN /\ aux' = [pc |-> "done", saved_file_paths |-> s.saved]
                        /\ ret' = Redirect("admission.new_admission", "no_document")
                   ELSE /\ aux' = [pc |-> "files_saved", saved_file_paths |-> s.saved]
                        /\ UNCHANGED ret
    /\ UNCHANGED <<now, session, db, tables, engine, call, prev, reqs>>

\* Step 1
ParseDocuments ==
    /\ aux # NotCalled
    /\ aux.pc = "files_saved"
    /\ IF ExtractsData(call.uploads, aux.saved_file_paths)
       THEN /\ aux' = [aux EXCEPT !.pc = "extracted"]
            /\ UNCHANGED ret
       ELSE /\ aux' = [aux EXCEPT !.pc = "done"]
            /\ ret' = Redirect("admission.new_admission", "no_clinical_data")
    /\ UNCHANGED <<now, files, session, db, tables, engine, call, prev, reqs>>

\* "Initialize services" and Steps 2 to 7, one at a time; prev is the handler's
\* frame of intermediate results
AnalyzeAdmission ==
    /\ aux # NotCalled
    /\ aux.pc = "extracted"
    /\ LET r == IF prev = NotCalled THEN NewRequest(call.scenario) ELSE prev
       IN  IF r.pc = "classified" /\ (~call.facility_found \/ ~call.payer_found)
           THEN /\ aux' = [aux EXCEPT !.pc = "done"]
                /\ ret' = Redirect("admission.new_admission", "invalid_selection")
                /\ UNCHANGED prev
           ELSE /\ prev' = Advance(tables, r)
                /\ IF prev'.pc = "error"
                   THEN /\ aux' = [aux EXCEPT !.pc = "done"]
                        /\ ret' = ExceptionRedirect
                   ELSE IF prev'.pc = "no_rate"
                   THEN /\ aux' = [aux EXCEPT !.pc = "done"]
                        /\ ret' = Redirect("admission.new_admission", "no_rate")
                   ELSE IF prev'.pc = "recommended"
                   THEN /\ aux' = [aux EXCEPT !.pc = "analyzed"]
                        /\ UNCHANGED ret
                   ELSE UNCHANGED <<aux, ret>>
    /\ UNCHANGED <<now, files, session, db, tables, engine, call, reqs>>

\* Step 8, the deletion of the uploaded files and the UPDATE that clears
\* uploaded_files
SaveAdmission ==
    /\ aux # NotCalled
    /\ aux.pc = "analyzed"
    /\ LET uploaded_files == UploadedFiles(call.uploads, aux.saved_file_paths)
           created == Admission_create(db, CreateArguments(prev, uploaded_files,
                                                           call.scenario))
       IN  IF Raised(created.ret)
           THEN /\ db' = created.db
                /\ ret' = ExceptionRedirect
                /\ UNCHANGED files
           ELSE /\ files' = DeleteSaved(files, aux.saved_file_paths, 1)
                /\ db' = ClearUploadedFiles(created.db, created.ret.val.id)
                /\ ret' = Redirect("admission.view_admission", "success")
    /\ aux' = [aux EXCEPT !.pc = "done"]
    /\ UNCHANGED <<now, session, tables, engine, call, prev, reqs>>

NextUpload ==
    \/ SaveUploadedFiles
    \/ ParseDocuments
    \/ AnalyzeAdmission
    \/ SaveAdmission

SpecUpload == InitUpload /\ [][NextUpload]_vars

----------------------------------------------------------------------------
(* Specification of two engines whose weights differ in 'margin' only      *)

\* the recommendation taken from the score scaled by weights['margin']
ScoreAndRecommend_margin_scaled(t, self, c) ==
    LET score_result == Score(self, c)
    IN  IF ~Returned(score_result) THEN score_result
        ELSE LET margin_score == RInt(IntOf(RMul(score_result.val.final_score,
                                                 self.weights["margin"])))
             IN  [exc |-> "none", val |-> score_result.val,
                  recommendation |-> get_recommendation(t, self, margin_score)]

\* steps 7 of the route: the explanation, then the recommendation for int(final_score)
ScoreAndRecommend(t, self, c) ==
    LET score_result == Score(self, c)
    IN  IF ~Returned(score_result) THEN score_result
        ELSE LET margin_score == RInt(IntOf(score_result.val.final_score))
             IN  [exc |-> "none", val |-> score_result.val,
                  recommendation |-> get_recommendation(t, self, margin_score)]

ConfiguredWeights ==
    [k \in DOMAIN Tables0.DEFAULT_BUSINESS_WEIGHTS |->
        Rat(Tables0.DEFAULT_BUSINESS_WEIGHTS[k], 10)]

\* weight dicts with a 'margin' entry; the last lacks the other entries
MarginWeights ==
    {ConfiguredWeights, PenaltyHeavyWeights, CensusHeavyWeights, [margin |-> RInt(1)]}

MarginValues == {RInt(0), Rat(6, 10), RInt(1), RInt(10)}

MarginCalls ==
    {[op |-> "calculate_margin_score", business_weights |-> Val(w), other_margin |-> m,
      projected_revenue |-> f[1], projected_cost |-> f[2], los |-> f[3],
      pdpm_groups |-> g, special_services |-> s, denial_risk |-> dr,
      current_census_pct |-> c, target_census_pct |-> RInt(90), clinical_notes |-> n] :
        w \in MarginWeights, m \in MarginValues, f \in FinancialInputs,
        g \in {[slp_group |-> "None", nursing_group |-> "LBS2", nta_score |-> 0],
               [slp_group |-> "SLP", nursing_group |-> "ES1", nta_score |-> 7]},
        s \in {Null, Val({"dialysis", "trach", "wound_vac", "iv_abx"})},
        dr \in {RInt(0), Rat(35, 100)}, c \in {RInt(50), RInt(100)},
        n \in {Val({}), Val(Text(high_risk_terms))}}

InitMargin ==
    /\ tables = Tables0
    /\ engine = NotConstructed
    /\ call \in {c \in MarginCalls : c.other_margin # c.business_weights.v.margin}
    /\ ret = NotCalled
    /\ aux = NotConstructed
    /\ prev = NotCalled
    /\ reqs = RequestsIdle
    /\ db = EmptyDb
    /\ files = {}
    /\ session = EmptySession
    /\ now = 0

\* a second engine, in aux, built from the same dict with another 'margin' entry
ConstructOtherEngine ==
    /\ call.op = "calculate_margin_score"
    /\ "other_margin" \in DOMAIN call
    /\ aux = NotConstructed
    /\ aux' = ScoringEngine_init(tables,
                  Val([call.business_weights.v EXCEPT !.margin = call.other_margin]))
    /\ UNCHANGED <<now, files, session, db, tables, engine, call, ret, prev, reqs>>

ScoreOnEngine ==
    /\ "other_margin" \in DOMAIN call
    /\ engine # NotConstructed
    /\ ret = NotCalled
    /\ ret' = ScoreAndRecommend(tables, engine, call)
    /\ UNCHANGED <<now, files, session, db, tables, engine, call, aux, prev, reqs>>

ScoreOnOtherEngine ==
    /\ "other_margin" \in DOMAIN call
    /\ aux # NotConstructed
    /\ prev = NotCalled
    /\ prev' = ScoreAndRecommend(tables, aux, call)
    /\ UNCHANGED <<now, files, session, db, tables, engine, call, ret, aux, reqs>>

NextMargin ==
    \/ ConstructScoringEngine
    \/ ConstructOtherEngine
    \/ ScoreOnEngine
    \/ ScoreOnOtherEngine

SpecMargin == InitMargin /\ [][NextMargin]_vars

----------------------------------------------------------------------------
(* Login with account lockout: routes/auth.py login and models/user.py     *)
(* Times are minutes on the server clock.                                  *)

MaxTime == 75

ClockTimes == {t \in 0 .. MaxTime : t % 15 = 0}

NumLogins == 2

LOCKOUT_THRESHOLD == 5

LOCKOUT_MINUTES == 30

\* bcrypt.hashpw: the hash of a password matches that password only
hashpw(password) == [bcrypt |-> password]

\* the account of the users table, with the security columns of the migration
Nurse ==
    [id |-> 1, email |-> "nurse@snf.example", password_hash |-> hashpw("secret"),
     is_active |-> TRUE, last_login |-> Null, failed_login_attempts |-> 0,
     locked_until |-> Null, last_failed_login |-> Null]

\* the users table after k failed logins of the account at time 0
UsersDb(k) ==
    [EmptyDb EXCEPT !.users =
        {[Nurse EXCEPT !.failed_login_attempts = k,
                       !.last_failed_login = IF k = 0 THEN Null ELSE Val(0)]}]

get_by_email(d, email) ==
    IF \E row \in d.users : row.email = email
    THEN CHOOSE row \in d.users : row.email = email
    ELSE Null

\* UPDATE users SET ... WHERE id = ?: the named columns of that row only
UpdateUser(d, id, columns) ==
    [d EXCEPT !.users =
        {IF row.id = id
         THEN [c \in DOMAIN row |-> IF c \in DOMAIN columns THEN columns[c] ELSE row[c]]
         ELSE row : row \in d.users}]

verify_password(self, password) == self.password_hash = hashpw(password)

\* each method returns the object after the call and the database after its UPDATE
unlock(d, self) ==
    [self |-> [self EXCEPT !.failed_login_attempts = 0, !.locked_until = Null,
                           !.last_failed_login = Null],
     db |-> UpdateUser(d, self.id,
                [failed_login_attempts |-> 0, locked_until |-> Null,
                 last_failed_login |-> Null])]

is_locked(d, self, t) ==
    IF self.locked_until = Null
    THEN [val |-> FALSE, self |-> self, db |-> d]
    ELSE IF t > self.locked_until.v
         THEN [val |-> FALSE] @@ unlock(d, self)
         ELSE [val |-> TRUE, self |-> self, db |-> d]

record_failed_login(d, self, t) ==
    LET attempts == self.failed_login_attempts + 1
    IN  IF attempts >= LOCKOUT_THRESHOLD
        THEN [self |-> [self EXCEPT !.failed_login_attempts = attempts,
                                    !.last_failed_login = Val(t),
                                    !.locked_until = Val(t + LOCKOUT_MINUTES)],
              db |-> UpdateUser(d, self.id,
                        [failed_login_attempts |-> attempts, last_failed_login |-> Val(t),
                         locked_until |-> Val(t + LOCKOUT_MINUTES)])]
        ELSE [self |-> [self EXCEPT !.failed_login_attempts = attempts,
                                    !.last_failed_login = Val(t)],
              db |-> UpdateUser(d, self.id,
                        [failed_login_attempts |-> attempts, last_failed_login |-> Val(t)])]

reset_failed_logins(d, self) ==
    [self |-> [self EXCEPT !.failed_login_attempts = 0, !.last_failed_login = Null],
     db |-> UpdateUser(d, self.id,
                [failed_login_attempts |-> 0, last_failed_login |-> Null])]

update_last_login(d, self, t) ==
    [self |-> [self EXCEPT !.last_login = Val(t)],
     db |-> UpdateUser(d, self.id, [last_login |-> Val(t)])]

\* the session the login handler builds after session.clear()
LoginSession(user) == [user_id |-> user.id, user_email |-> user.email]

LoginEmails == {"nurse@snf.example", "nobody@snf.example"}

LoginPasswords == {"secret", "guess"}

LoginIdle == [pc |-> "idle", email |-> "", password |-> "", user |-> Null,
              session |-> EmptySession]

LoginFinished == {"idle", "rejected", "locked_out", "inactive", "logged_in", "failed"}

InitLogin ==
    /\ tables = Tables0
    /\ engine = NotConstructed
    /\ call = NotCalled
    /\ ret = NotCalled
    /\ aux = NotCalled
    /\ prev = NotCalled
    /\ reqs = [i \in 1 .. NumLogins |-> LoginIdle]
    /\ db \in {UsersDb(k) : k \in 0 .. LOCKOUT_THRESHOLD - 1}
    /\ files = {}
    /\ session = EmptySession
    /\ now = 0

\* POST /login: the form fields and User.get_by_email
LoginGetUser(i) ==
    /\ reqs[i].pc \in LoginFinished
    /\ \E email \in LoginEmails, password \in LoginPasswords :
          LET user == get_by_email(db, email)
          IN  reqs' = [reqs EXCEPT ![i] =
                          [pc |-> IF user = Null THEN "rejected" ELSE "loaded",
                           email |-> email, password |-> password, user |-> user,
                           session |-> EmptySession]]
    /\ UNCHANGED <<now, files, session, db, tables, engine, call, ret, aux, prev>>

\* user.is_locked() on the loaded object, then the is_active test
LoginCheckLocked(i) ==
    /\ reqs[i].pc = "loaded"
    /\ LET locked == is_locked(db, reqs[i].user, now)
       IN  /\ reqs' = [reqs EXCEPT ![i].user = locked.self,
                                   ![i].pc = IF locked.val THEN "locked_out"
                                             ELSE IF ~locked.self.is_active THEN "inactive"
                                             ELSE "checked"]
           /\ db' = locked.db
    /\ UNCHANGED <<now, files, session, tables, engine, call, ret, aux, prev>>

\* verify_password, then either the session or the recorded failure
LoginVerifyPassword(i) ==
    /\ reqs[i].pc = "checked"
    /\ IF verify_password(reqs[i].user, reqs[i].password)
       THEN LET reset == reset_failed_logins(db, reqs[i].user)
                login == update_last_login(reset.db, reset.self, now)
            IN  /\ reqs' = [reqs EXCEPT ![i].user = login.self,
                                        ![i].session = LoginSession(login.self),
                                        ![i].pc = "logged_in"]
                /\ db' = login.db
       ELSE LET failure == record_failed_login(db, reqs[i].user, now)
                locked == is_locked(failure.db, failure.self, now)
            IN  /\ reqs' = [reqs EXCEPT ![i].user = locked.self, ![i].pc = "failed"]
                /\ db' = locked.db
    /\ UNCHANGED <<now, files, session, tables, engine, call, ret, aux, prev>>

Tick ==
    /\ \E t \in ClockTimes : t > now /\ now' = t
    /\ UNCHANGED <<files, session, db, tables, engine, call, ret, aux, prev, reqs>>

NextLogin ==
    \/ \E i \in 1 .. NumLogins : LoginGetUser(i)
    \/ \E i \in 1 .. NumLogins : LoginCheckLocked(i)
    \/ \E i \in 1 .. NumLogins : LoginVerifyPassword(i)
    \/ Tick

SpecLogin == InitLogin /\ [][NextLogin]_vars

\* the same handler with one login request in flight at a time
NextLoginAlone ==
    \/ LoginGetUser(1)
    \/ LoginCheckLocked(1)
    \/ LoginVerifyPassword(1)
    \/ Tick

SpecLoginAlone == InitLogin /\ [][NextLoginAlone]_vars

----------------------------------------------------------------------------
(* Session timeout: middleware/session_timeout.py, with the login and      *)
(* logout handlers of routes/auth.py. session is the content of the signed *)
(* session cookie of one browser, aux the time the cookie was signed.      *)

SESSION_TIMEOUT_MINUTES == 15

PERMANENT_SESSION_LIFETIME == 60

isoformat(t) == [iso |-> t]

fromisoformat(text) == text.iso

HasKey(dict, key) == key \in DOMAIN dict

\* returns the verdict and the session after the call
check_session_timeout(s, t) ==
    IF ~HasKey(s, "user_id") THEN [val |-> TRUE, session |-> s]
    ELSE IF ~HasKey(s, "last_activity")
         THEN [val |-> TRUE,
               session |-> [k \in DOMAIN s \cup {"last_activity"} |->
                               IF k = "last_activity" THEN isoformat(t) ELSE s[k]]]
         ELSE IF t - fromisoformat(s.last_activity) > SESSION_TIMEOUT_MINUTES
              THEN [val |-> FALSE, session |-> s]
              ELSE [val |-> TRUE, session |-> [s EXCEPT !.last_activity = isoformat(t)]]

SkippedEndpoints == {"static", "auth.login", "auth.logout"}

\* the before_request hook: the response it returns, if any, and the session
before_request_timeout_check(endpoint, s, t) ==
    IF endpoint \in SkippedEndpoints THEN [response |-> Null, session |-> s]
    ELSE IF HasKey(s, "user_id")
         THEN LET valid == check_session_timeout(s, t)
              IN  IF ~valid.val
                  THEN [response |-> Val("redirect_login"), session |-> EmptySession]
                  ELSE [response |-> Null, session |-> valid.session]
         ELSE [response |-> Null, session |-> s]

\* the decorator of the protected routes
login_required(s) == IF ~HasKey(s, "user_id") THEN Val("redirect_login") ELSE Null

\* the permanent session cookie is refused once older than its lifetime
open_session(s, signed, t) ==
    IF signed # NotCalled /\ t - signed.at > PERMANENT_SESSION_LIFETIME
    THEN EmptySession
    ELSE s

\* the cookie is signed again with every response that carries a session
save_session(s, t) == IF s = EmptySession THEN NotCalled ELSE [at |-> t]

\* the response to a request for endpoint arriving with the cookie
HandleRequest(endpoint, s, signed, t) ==
    LET opened == open_session(s, signed, t)
        hook == before_request_timeout_check(endpoint, opened, t)
        guard == IF hook.response # Null THEN hook.response
                 ELSE IF endpoint = "auth.profile" THEN login_required(hook.session)
                 ELSE Null
        after == IF endpoint = "auth.logout" THEN EmptySession ELSE hook.session
    IN  [status |-> IF guard # Null THEN guard.v
                    ELSE IF endpoint = "auth.logout" THEN "redirect_login"
                    ELSE "handled",
         session |-> after]

RequestEndpoints == {"auth.profile", "static", "auth.logout"}

InitSession ==
    /\ tables = Tables0
    /\ engine = NotConstructed
    /\ call = NotCalled
    /\ ret = NotCalled
    /\ aux = NotCalled
    /\ prev = NotCalled
    /\ reqs = RequestsIdle
    /\ db = UsersDb(0)
    /\ files = {}
    /\ session = EmptySession
    /\ now = 0

\* POST /login with the account's password: the hook skips the endpoint
SessionLogin ==
    /\ LET user == get_by_email(db, Nurse.email)
           locked == is_locked(db, user, now)
           reset == reset_failed_logins(locked.db, locked.self)
           login == update_last_login(reset.db, reset.self, now)
       IN  /\ ~locked.val
           /\ user.is_active
           /\ verify_password(user, "secret")
           /\ db' = login.db
           /\ session' = LoginSession(login.self)
    /\ call' = [endpoint |-> "auth.login", at |-> now]
    /\ ret' = [status |-> "redirect_dashboard", since |-> prev]
    /\ prev' = [event |-> "login", at |-> now]
    /\ aux' = save_session(session', now)
    /\ UNCHANGED <<now, files, tables, engine, reqs>>

\* any other request of the browser; prev keeps the last event of the session,
\* the login or a request that reached a protected handler
SessionRequest ==
    \E endpoint \in RequestEndpoints :
        LET response == HandleRequest(endpoint, session, aux, now)
        IN  /\ call' = [endpoint |-> endpoint, at |-> now]
            /\ ret' = [status |-> response.status, since |-> prev]
            /\ session' = response.session
            /\ aux' = save_session(response.session, now)
            /\ prev' = IF ~HasKey(response.session, "user_id") THEN NotCalled
                       ELSE IF endpoint = "auth.profile" /\ response.status = "handled"
                            THEN [event |-> "request", at |-> now]
                            ELSE prev
            /\ UNCHANGED <<now, files, db, tables, engine, reqs>>

NextSession == SessionLogin \/ SessionRequest \/ Tick

SpecSession == InitSession /\ [][NextSession]_vars

----------------------------------------------------------------------------
(* C4 and C6                                                               *)

MissingOrNull(field) == field.kind \in {"absent", "null"}

PDPM_DEFAULTS ==
    [pt_group |-> "TE", ot_group |-> "TE", slp_group |-> "None",
     nursing_group |-> "LBS2", nta_score |-> 0]

\* C4: classify_patient raises no exception on a record whose optional fields are
\* missing or null, and returns the documented defaults (TE, TE, None, LBS2, 0)
\* when all of them are.
C4_TotalOnMissingOrNull ==
    (call.op = "classify_patient" /\ ret # NotCalled) =>
        /\ ret.exc = "none"
        /\ (\A f \in DOMAIN call.extracted_data : MissingOrNull(call.extracted_data[f])) =>
              /\ ret.val.pt_group = PDPM_DEFAULTS.pt_group
              /\ ret.val.ot_group = PDPM_DEFAULTS.ot_group
              /\ ret.val.slp_group = PDPM_DEFAULTS.slp_group
              /\ ret.val.nursing_group = PDPM_DEFAULTS.nursing_group
              /\ ret.val.nta_score = PDPM_DEFAULTS.nta_score

\* the part of C4 the code does satisfy: fields that are missing (not null)
C4_AbsentFieldsGiveDefaults ==
    (/\ call.op = "classify_patient" /\ ret # NotCalled
     /\ \A f \in DOMAIN call.extracted_data : call.extracted_data[f] = Absent) =>
        /\ ret.exc = "none"
        /\ ret.val.pt_group = "TE" /\ ret.val.ot_group = "TE" /\ ret.val.slp_group = "None"
        /\ ret.val.nursing_group = "LBS2" /\ ret.val.nta_score = 0

\* the points the table gives one code: those of the mapping entries it starts with
TablePoints(code) ==
    LET hits == {p \in 1..Len(comorbidity_mapping) : StartsWith(code, comorbidity_mapping[p][1])}
    IN  IF hits = {} THEN 0 ELSE NTA_SCORES[comorbidity_mapping[CHOOSE p \in hits : TRUE][2]]

RECURSIVE SumOver(_, _)
SumOver(l, k) == IF k = 0 THEN 0 ELSE TablePoints(l[k]) + SumOver(l, k - 1)

NtaOfCall ==
    IF call.op = "calculate_nta_score" THEN ret.val ELSE ret.val.nta_score

NtaInputs ==
    IF call.op = "calculate_nta_score"
    THEN [comorbidities |-> call.comorbidities,
          dialysis |-> call.special_services.kind = "value"
                       /\ "dialysis" \in call.special_services.v]
    ELSE [comorbidities |-> Get(call.extracted_data.comorbidities, <<>>).v,
          dialysis |-> "dialysis" \in Get(call.extracted_data.special_services, {}).v]

\* C6: the NTA score is within 0..12, and is the sum of the table points of the
\* prefix-matching comorbidities (repeats counted) plus 8 for dialysis, capped at 12.
C6_NtaScoreBounded ==
    (call.op \in {"calculate_nta_score", "classify_patient"} /\ Returned(ret)) =>
        /\ 0 <= NtaOfCall /\ NtaOfCall <= 12
        /\ NtaOfCall = Min(12, SumOver(NtaInputs.comorbidities, Len(NtaInputs.comorbidities))
                               + (IF NtaInputs.dialysis THEN 8 ELSE 0))

\* a list of three codes whose points, with dialysis, exceed the cap
C6_Witness ==
    /\ call.op = "calculate_nta_score" /\ Returned(ret)
    /\ Len(call.comorbidities) = 3
    /\ call.comorbidities[1] = call.comorbidities[2]
    /\ call.special_services = Val({"dialysis"})
    /\ SumOver(call.comorbidities, 3) + 8 > 12
    /\ ret.val = 12

----------------------------------------------------------------------------
(* C2 (calculate_revenue), C3, C7 and C8                                   *)

KnownPayerTypes == {"medicare_ffs", "ma_commercial", "medicaid_wi", "family_care_wi"}

\* calculate_revenue called with a payer type outside the four known ones raises
\* the unknown-payer-type error and returns no breakdown.
CalculateRevenueRejectsUnknown ==
    (call.op = "calculate_revenue" /\ call.payer_type \notin KnownPayerTypes
        /\ ret # NotCalled)
    => ret = Raise(UnsupportedPayerType)

ValidationError == "ValidationError"

\* C3: a call of a payer calculation or of estimate_total_cost with los <= 0
\* returns no breakdown and fails with a validation error, not with a
\* division-by-zero fault.
C3_NonPositiveLosRejected ==
    (/\ call.op \in {"calculate_revenue", "estimate_total_cost"}
     /\ call.payer_type \in KnownPayerTypes
     /\ call.los <= 0
     /\ ret # NotCalled)
    => ret = Raise(ValidationError)

NumericKeys ==
    {"pt_component", "ot_component", "slp_component", "nursing_component",
     "nta_component", "non_case_mix", "pdpm_multiplier", "per_diem_rate",
     "component_nursing", "component_therapy", "component_room",
     "nursing_hours", "hourly_rate", "supply_cost", "wage_index", "vbp_multiplier"}

MatrixKeys == {"day_tiers", "nursing_matrix", "nta_matrix"}

NonNegativeDict(d) ==
    /\ \A k \in DOMAIN d \cap NumericKeys : d[k].n >= 0
    /\ \A k \in DOMAIN d \cap MatrixKeys : \A j \in DOMAIN d[k] : d[k][j].n >= 0

PositiveFacility(f) ==
    f # Null => \A k \in DOMAIN f.v : f.v[k].n > 0

ValidRevenueCall ==
    /\ call.op = "calculate_revenue"
    /\ call.payer_type \in KnownPayerTypes
    /\ call.los >= 1
    /\ NonNegativeDict(call.rate_data)
    /\ PositiveFacility(call.facility_data)
    /\ call.payer_type = "ma_commercial" =>
           DGet(call.rate_data, "contract_type", "per_diem") \in {"per_diem", "pdpm_mapped"}

ValidCostCall ==
    /\ call.op = "estimate_total_cost"
    /\ call.los >= 1
    /\ NonNegativeDict(call.cost_model_data)
    /\ call.projected_revenue.n >= 0

\* C7: on valid inputs (los >= 1, no negative rate or cost value, positive wage
\* index and VBP multiplier, projected revenue >= 0) every payer algorithm returns
\* total_revenue >= 0 and estimate_total_cost returns total_cost >= 0.
C7_RevenueAndCostNonNegative ==
    /\ (ValidRevenueCall /\ ret # NotCalled) =>
           Returned(ret) /\ ret.val.total_revenue.n >= 0
    /\ (ValidCostCall /\ ret # NotCalled) =>
           Returned(ret) /\ ret.val.total_cost.n >= 0

C7_Witness ==
    /\ ValidCostCall
    /\ Returned(ret)
    /\ call.projected_revenue.n > 0
    /\ ret.val.denial_risk.expected_denial_loss.n > 0
    /\ ret.val.total_cost.n > 0

\* the schedule as the specification states it, in hundredths
StatedVpd(day) ==
    IF day <= 3 THEN 100
    ELSE IF day <= 6 THEN 98
    ELSE IF day <= 10 THEN 95
    ELSE IF day <= 14 THEN 92
    ELSE IF day <= 18 THEN 88
    ELSE 85

RECURSIVE StatedVpdSum(_)
StatedVpdSum(los) == IF los < 1 THEN 0 ELSE StatedVpd(los) + StatedVpdSum(los - 1)

MedicareReturned ==
    /\ call.op = "calculate_revenue"
    /\ call.payer_type = "medicare_ffs"
    /\ Returned(ret)

\* C8: over the days 1..los of a Medicare FFS stay the factor applied to each day
\* is 1.00, 0.98, 0.95, 0.92, 0.88, 0.85 for days 1-3, 4-6, 7-10, 11-14, 15-18,
\* 19-20 and 0.85 beyond day 20, never rises from one day to the next, and the
\* PT revenue returned is the PT rate times the sum of those factors.
C8_VpdNonIncreasing ==
    MedicareReturned =>
        /\ \A day \in 1 .. call.los :
              /\ vpd_factor(tables, day) = Rat(StatedVpd(day), 100)
              /\ day > 1 => RLe(vpd_factor(tables, day), vpd_factor(tables, day - 1))
        /\ LET fd == IF call.facility_data = Null THEN EmptyDict ELSE call.facility_data.v
               pt_rate == DGet(call.rate_data, "pt_component", Rat(6489, 100))
           IN  ret.val.pt_revenue =
                   WageAdjust(RMul(pt_rate, Rat(StatedVpdSum(call.los), 100)),
                              DGet(fd, "wage_index", RInt(1)))

C8_Witness ==
    /\ MedicareReturned
    /\ call.los > 20
    /\ ret.val.pt_revenue.n > 0

----------------------------------------------------------------------------
(* C1, C5 and C9                                                           *)

ScoreReturned == call.op = "calculate_margin_score" /\ Returned(ret)

\* base score plus the signed weighted adjustments, before the final clamp
Unclamped(explanation) ==
    RAdd(RAdd(explanation.base_score,
              explanation.adjustments.census_factor.weighted_value),
         RAdd(RAdd(explanation.adjustments.denial_risk.weighted_value,
                   explanation.adjustments.complexity.weighted_value),
              explanation.adjustments.readmit_risk.weighted_value))

InUnitRange(score) == RLe(RInt(0), score) /\ RLe(score, RInt(100))

\* C1: every explanation returned by calculate_margin_score, for any revenue,
\* cost, length of stay, groups, services, denial risk, census, notes and weights,
\* has 0 <= final_score <= 100.
C1_FinalScoreInRange ==
    /\ ScoreReturned => InUnitRange(ret.val.final_score)
    /\ (prev # NotCalled /\ Returned(prev.ret)) => InUnitRange(prev.ret.val.final_score)

C1_Witness ==
    /\ ScoreReturned
    /\ RLt(Unclamped(ret.val), RInt(0))
    /\ ret.val.final_score = RInt(0)

TwoScores == prev # NotCalled /\ Returned(prev.ret) /\ ScoreReturned

----------------------------------------------------------------------------
(* C2 (assessment path) and C10                                            *)

----------------------------------------------------------------------------
(* C11: get_recommendation returns exactly one of Accept, Defer, Decline:  *)
(* with the configured thresholds Accept iff score >= 70, Defer iff        *)
(* 40 <= score < 70, Decline iff score < 40; with a thresholds dict        *)
(* assigned to the instance the same partition holds at its two values.    *)

RecommendationReturned == Returned(aux) /\ "score" \in DOMAIN aux

\* the thresholds in force: the instance's own dict, else the stated 70 and 40
StatedThresholds ==
    IF engine.thresholds.ref = "instance" THEN engine.thresholds.dict
    ELSE [accept |-> 70, defer |-> 40]

AtLeast(score, k) == score.n >= k * score.d

----------------------------------------------------------------------------
(* C12: every explanation returned by calculate_margin_score carries the   *)
(* base margin, the base score and, for the census, denial-risk,           *)
(* complexity and readmit-risk adjustments, raw value, weight and weighted *)
(* value; the weighted value is raw x weight for census and -(raw x        *)
(* weight) for the three penalties, and final_score is                     *)
(* clamp(0, 100, base_score + the four weighted values).                   *)

AdjustmentKeys == {"census_factor", "denial_risk", "complexity", "readmit_risk"}

SelfConsistent(explanation, revenue, cost) ==
    LET adj == explanation.adjustments
        signed(k) == IF k = "census_factor" THEN RMul(adj[k].raw_value, adj[k].weight)
                     ELSE RNeg(RMul(adj[k].raw_value, adj[k].weight))
        sum == Unclamped(explanation)
    IN  /\ {"base_margin", "base_score", "adjustments", "final_score"}
              \subseteq DOMAIN explanation
        /\ explanation.base_margin.total_margin = RSub(revenue, cost)
        /\ DOMAIN adj = AdjustmentKeys
        /\ \A k \in AdjustmentKeys :
              /\ {"raw_value", "weight", "weighted_value"} \subseteq DOMAIN adj[k]
              /\ adj[k].weighted_value = signed(k)
        /\ explanation.final_score =
              (IF RLt(sum, RInt(0)) THEN RInt(0)
               ELSE IF RLt(RInt(100), sum) THEN RInt(100) ELSE sum)

C12_ExplanationSelfConsistent ==
    /\ ScoreReturned =>
          SelfConsistent(ret.val, call.projected_revenue, call.projected_cost)
    /\ (prev # NotCalled /\ Returned(prev.ret)) =>
          SelfConsistent(prev.ret.val, prev.call.projected_revenue,
                         prev.call.projected_cost)

\* an explanation whose four adjustments are all non-zero, none with weight 1,
\* and whose final_score was not clamped
C12_Witness ==
    /\ ScoreReturned
    /\ \A k \in AdjustmentKeys :
          /\ ret.val.adjustments[k].weighted_value # RInt(0)
          /\ ret.val.adjustments[k].weight # RInt(1)
    /\ RLt(RInt(0), ret.val.final_score)
    /\ RLt(ret.val.final_score, RInt(100))
    /\ ret.val.final_score = Unclamped(ret.val)

----------------------------------------------------------------------------
(* C13: estimate_total_cost returns overhead_cost = 0.22 x (nursing +      *)
(* supplies + pharmacy + transport), total_cost_no_risk = direct costs +   *)
(* overhead and total_cost = total_cost_no_risk + expected_denial_loss;    *)
(* total_cost >= total_cost_no_risk when projected_revenue >= 0 and        *)
(* total_cost > total_cost_no_risk when projected_revenue > 0, for every   *)
(* payer type and authorization status.                                    *)

CostReturned == call.op = "estimate_total_cost" /\ Returned(ret)

DirectCosts(cost) ==
    RAdd(RAdd(cost.nursing_cost, cost.supply_cost),
         RAdd(cost.pharmacy_cost, cost.transport_cost))

C13_OverheadAndRiskTotals ==
    CostReturned =>
        LET cost == ret.val
            direct == DirectCosts(cost)
        IN  /\ cost.total_direct_cost = direct
            /\ cost.overhead_cost = RMul(Rat(22, 100), direct)
            /\ cost.total_cost_no_risk = RAdd(direct, cost.overhead_cost)
            /\ cost.total_cost =
                  RAdd(cost.total_cost_no_risk, cost.denial_risk.expected_denial_loss)
            /\ call.projected_revenue.n >= 0 =>
                  RLe(cost.total_cost_no_risk, cost.total_cost)
            /\ call.projected_revenue.n > 0 =>
                  RLt(cost.total_cost_no_risk, cost.total_cost)

\* a payer type and an authorization status outside the DENIAL_RISK table, with
\* transport, positive revenue and a strictly larger total with risk
C13_Witness ==
    /\ CostReturned
    /\ call.payer_type = "MA"
    /\ call.auth_status = "denied"
    /\ call.needs_transport
    /\ call.projected_revenue.n > 0
    /\ ret.val.overhead_cost.n > 0
    /\ RLt(ret.val.total_cost_no_risk, ret.val.total_cost)

----------------------------------------------------------------------------
(* C14: after any sequence of Rate.create, Rate.update and Rate.delete, at *)
(* most one rate record of a given (facility, payer, payer_type) is active *)
(* at any date, a record being active at d when effective_date <= d and    *)
(* end_date is null or end_date >= d.                                      *)

ActiveAt(row, day) ==
    row.effective_date <= day /\ (row.end_date = Null \/ row.end_date.v >= day)

C14_AtMostOneActiveRate ==
    \A a \in db.rates, b \in db.rates, day \in Dates :
        (/\ a.facility_id = b.facility_id
         /\ a.payer_id = b.payer_id
         /\ a.payer_type = b.payer_type
         /\ ActiveAt(a, day)
         /\ ActiveAt(b, day)) => a.id = b.id

----------------------------------------------------------------------------
(* C15: in the Family-Care-WI scenario (nursing_group HBS2 priced from the *)
(* nursing matrix, NTA bracket 12+, LOS 90) a projected cost above the     *)
(* projected revenue gives a negative total_margin; when the cost exceeds  *)
(* the revenue by at least 25 dollars per day of stay, the default scoring *)
(* engine gives a final_score below 40 and the recommendation Decline.     *)

DementiaScored == call.scenario = "advanced_dementia" /\ Returned(ret)

DementiaRecommended == DementiaScored /\ Returned(prev)

\* the statement without the size of the loss: any cost above the revenue
C15_AnyLossDeclines ==
    (DementiaRecommended /\ call.cost_excess > 0) =>
        /\ ret.val.base_margin.total_margin.n < 0
        /\ RLt(ret.val.final_score, RInt(40))
        /\ prev.val = "Decline"

C15_LossOf25PerDayDeclines ==
    /\ (DementiaScored /\ call.cost_excess > 0) =>
          /\ ret.val.base_margin.projected_revenue =
                RMul(RAdd(call.rate_data.nursing_matrix["HBS2"],
                          call.rate_data.nta_matrix["12+"]), RInt(90))
          /\ ret.val.base_margin.total_margin = RInt(0 - call.cost_excess)
    /\ (DementiaScored /\ call.cost_excess >= 25 * call.los) =>
          RLt(ret.val.final_score, RInt(40))
    /\ (DementiaRecommended /\ call.cost_excess >= 25 * call.los) =>
          prev.val = "Decline"

\* the seeded figures: 142,600 of revenue against 168,400 of cost
C15_Witness ==
    /\ DementiaRecommended
    /\ ret.val.base_margin.projected_revenue = RInt(142600)
    /\ ret.val.base_margin.projected_cost = RInt(168400)
    /\ ret.val.base_margin.total_margin = RInt(0 - 25800)
    /\ prev.val = "Decline"

----------------------------------------------------------------------------
(* C16: in the hip-replacement scenario (Medicare FFS, LOS 22) with total  *)
(* revenue 218,450 and cost 132,600 the scoring engine yields a            *)
(* final_score between 85 and 94 and the recommendation Accept.            *)

HipRecommended ==
    call.scenario = "hip_replacement" /\ Returned(ret) /\ Returned(prev)

C16_HipScoreHighEightiesLowNineties ==
    HipRecommended =>
        /\ RLe(RInt(85), ret.val.final_score)
        /\ RLe(ret.val.final_score, RInt(94))
        /\ prev.val = "Accept"

----------------------------------------------------------------------------
(* C17: in calculate_medicare_ffs, for every los >= 1 and before the wage  *)
(* index is applied, PT and OT revenue are their rate times the sum of     *)
(* VPD(day) over day 1..los; SLP revenue is slp_rate times that sum when   *)
(* slp_group is not 'None' and 0 when it is 'None'; nursing, NTA and       *)
(* non-case-mix revenue are rate x los with no VPD factor.                 *)

MedicareRate(key, default) == DGet(call.rate_data, key, default)

MedicareWageIndex ==
    DGet(IF call.facility_data = Null THEN EmptyDict ELSE call.facility_data.v,
         "wage_index", RInt(1))

\* a returned labor component with the wage adjustment divided out
BeforeWageIndex(revenue) ==
    RDiv(revenue, RAdd(RMul(Rat(713, 1000), MedicareWageIndex), Rat(287, 1000)))

C17_ComponentAccrual ==
    (MedicareReturned /\ call.los >= 1) =>
        LET vpd_sum == Rat(StatedVpdSum(call.los), 100)
            los == RInt(call.los)
        IN  /\ BeforeWageIndex(ret.val.pt_revenue) =
                  RMul(MedicareRate("pt_component", Rat(6489, 100)), vpd_sum)
            /\ BeforeWageIndex(ret.val.ot_revenue) =
                  RMul(MedicareRate("ot_component", Rat(6438, 100)), vpd_sum)
            /\ BeforeWageIndex(ret.val.slp_revenue) =
                  (IF "slp_group" \in DOMAIN call.pdpm_groups
                      /\ call.pdpm_groups.slp_group = "None"
                   THEN RInt(0)
                   ELSE RMul(MedicareRate("slp_component", Rat(2643, 100)), vpd_sum))
            /\ BeforeWageIndex(ret.val.nursing_revenue) =
                  RMul(MedicareRate("nursing_component", Rat(10581, 100)), los)
            /\ ret.val.nta_revenue =
                  RMul(MedicareRate("nta_component", Rat(8672, 100)), los)
            /\ ret.val.non_case_mix_revenue =
                  RMul(MedicareRate("non_case_mix", Rat(9813, 100)), los)

\* a stay past day 20 without an SLP group, at a wage index other than 1
C17_Witness ==
    /\ MedicareReturned
    /\ call.los > 20
    /\ call.pdpm_groups = [slp_group |-> "None", nursing_group |-> "LBS2", nta_score |-> 0]
    /\ MedicareWageIndex = Rat(5, 4)
    /\ ret.val.slp_revenue = RInt(0)
    /\ ret.val.ot_revenue.n > 0
    /\ ret.val.nursing_revenue.n > 0

----------------------------------------------------------------------------
(* C18: in calculate_medicare_ffs the wage index multiplies only the 71.3% *)
(* labor portion of T = pt + ot + slp + nursing: total_before_vbp =        *)
(* 0.713 x wage_index x T + 0.287 x T + nta + non_case_mix, total_revenue  *)
(* = total_before_vbp x vbp_multiplier, and the reported nta_revenue and   *)
(* non_case_mix_revenue are the same for every value of wage_index.        *)

MedicareVbp ==
    DGet(IF call.facility_data = Null THEN EmptyDict ELSE call.facility_data.v,
         "vbp_multiplier", RInt(1))

\* T before the wage index, from the rates, the stated schedule and the stay
TherapyTotal ==
    LET vpd_sum == Rat(StatedVpdSum(call.los), 100)
        slp == IF "slp_group" \in DOMAIN call.pdpm_groups
                  /\ call.pdpm_groups.slp_group = "None"
               THEN RInt(0)
               ELSE RMul(MedicareRate("slp_component", Rat(2643, 100)), vpd_sum)
    IN  RAdd(RAdd(RMul(MedicareRate("pt_component", Rat(6489, 100)), vpd_sum),
                  RMul(MedicareRate("ot_component", Rat(6438, 100)), vpd_sum)),
             RAdd(slp, RMul(MedicareRate("nursing_component", Rat(10581, 100)),
                            RInt(call.los))))

\* the same call at another wage index
AtWageIndex(w) ==
    calculate_revenue(tables, call.payer_type, call.rate_data, call.pdpm_groups, call.los,
                      Val([wage_index |-> w, vbp_multiplier |-> MedicareVbp]))

C18_WageIndexOnLaborPortion ==
    (MedicareReturned /\ call.los >= 1) =>
        /\ ret.val.total_before_vbp =
              RAdd(RAdd(RMul(RMul(Rat(713, 1000), MedicareWageIndex), TherapyTotal),
                        RMul(Rat(287, 1000), TherapyTotal)),
                   RAdd(ret.val.nta_revenue, ret.val.non_case_mix_revenue))
        /\ ret.val.total_revenue = RMul(ret.val.total_before_vbp, MedicareVbp)
        /\ \A w \in {Rat(1, 2), RInt(1), RInt(2)} :
              /\ AtWageIndex(w).val.nta_revenue = ret.val.nta_revenue
              /\ AtWageIndex(w).val.non_case_mix_revenue = ret.val.non_case_mix_revenue

\* a wage index above 1 and a VBP multiplier below 1
C18_Witness ==
    /\ MedicareReturned
    /\ call.los >= 15
    /\ MedicareWageIndex = Rat(5, 4)
    /\ MedicareVbp = Rat(9, 10)
    /\ ret.val.nta_revenue.n > 0
    /\ RLt(ret.val.total_revenue, ret.val.total_before_vbp)

----------------------------------------------------------------------------
(* C19: the clinical category is the first category, in the order          *)
(* major_joint, non_surgical_ortho, acute_infections, cardiovascular,      *)
(* pulmonary, surgery_neuro, whose prefix set matches any code of          *)
(* [primary_diagnosis] + comorbidities, whatever the position of the       *)
(* matching code; pt_group and ot_group are both the table image of that   *)
(* category, and both TE when no category matches.                         *)

CategoryOrder ==
    <<"major_joint", "non_surgical_ortho", "acute_infections", "cardiovascular",
      "pulmonary", "surgery_neuro">>

TherapyGroupOf ==
    [major_joint |-> "TA", non_surgical_ortho |-> "TB", acute_infections |-> "TC",
     cardiovascular |-> "TD", pulmonary |-> "TD", surgery_neuro |-> "TC", other |-> "TE"]

\* the codes of the call: the primary diagnosis ('' when missing) and the comorbidities
CodesOfCall ==
    {Get(call.extracted_data.primary_diagnosis, <<>>).v}
    \cup {call.extracted_data.comorbidities.v[k] :
             k \in 1..Len(call.extracted_data.comorbidities.v)}

PrefixesOf(category) ==
    LET entry == CHOOSE e \in {tables.CLINICAL_CATEGORIES[i] :
                                  i \in 1..Len(tables.CLINICAL_CATEGORIES)} :
                     e[1] = category
    IN  {entry[2][p] : p \in 1..Len(entry[2])}

CategoryMatches(category) ==
    \E code \in CodesOfCall, prefix \in PrefixesOf(category) : StartsWith(code, prefix)

ExpectedCategory ==
    IF \A i \in 1..Len(CategoryOrder) : ~CategoryMatches(CategoryOrder[i]) THEN "other"
    ELSE CategoryOrder[CHOOSE i \in 1..Len(CategoryOrder) :
                          /\ CategoryMatches(CategoryOrder[i])
                          /\ \A j \in 1..(i - 1) : ~CategoryMatches(CategoryOrder[j])]

GroupsReturned == call.op = "classify_patient" /\ Returned(ret)

C19_FirstCategoryInOrder ==
    GroupsReturned =>
        /\ ret.val.clinical_category = ExpectedCategory
        /\ ret.val.pt_group = TherapyGroupOf[ExpectedCategory]
        /\ ret.val.ot_group = TherapyGroupOf[ExpectedCategory]

\* a cardiovascular primary diagnosis followed by a joint-replacement comorbidity
C19_Witness ==
    /\ GroupsReturned
    /\ call.extracted_data.primary_diagnosis = Val(I50_9)
    /\ call.extracted_data.comorbidities = Val(<<J44_0, Z96_641>>)
    /\ ret.val.clinical_category = "major_joint"
    /\ ret.val.pt_group = "TA"

----------------------------------------------------------------------------
(* C20: nursing_group is one of ES1, ES2, HBS1, HBS2, LBS1, LBS2; with     *)
(* trach, dialysis or iv_abx set it is ES1 when the ADL score is >= 15 and *)
(* ES2 otherwise (also when the ADL score is absent), whatever the         *)
(* clinical category; with none set it is the table value of the clinical  *)
(* category, LBS2 when no category matches, and never ES1 or ES2.          *)

NursingGroupOf ==
    [major_joint |-> "HBS1", non_surgical_ortho |-> "LBS1", acute_infections |-> "LBS2",
     cardiovascular |-> "HBS2", pulmonary |-> "HBS2", surgery_neuro |-> "HBS1",
     other |-> "LBS2"]

AdlOfCall == Get(call.extracted_data.functional_status, [adl_score |-> Absent]).v.adl_score

ExpectedNursingGroup(extensive) ==
    IF extensive
    THEN IF AdlOfCall # Absent /\ AdlOfCall.v >= 15 THEN "ES1" ELSE "ES2"
    ELSE NursingGroupOf[ExpectedCategory]

ExtensiveOfCall ==
    Get(call.extracted_data.special_services, {}).v \cap {"trach", "dialysis", "iv_abx"} # {}

C20_NursingGroup ==
    /\ GroupsReturned =>
          /\ ret.val.nursing_group \in {"ES1", "ES2", "HBS1", "HBS2", "LBS1", "LBS2"}
          /\ ret.val.nursing_group = ExpectedNursingGroup(ExtensiveOfCall)
          /\ ~ExtensiveOfCall => ret.val.nursing_group \notin {"ES1", "ES2"}
    /\ (call.op = "classify_patient" /\ Returned(aux)) =>
          aux.val = ExpectedNursingGroup(aux.has_extensive_services)

\* dialysis on a joint-replacement patient: ES1 at an ADL score of 15, ES2 without one
C20_Witness ==
    /\ GroupsReturned
    /\ ExpectedCategory = "major_joint"
    /\ call.extracted_data.special_services = Val({"dialysis"})
    /\ \/ AdlOfCall = Val(15) /\ ret.val.nursing_group = "ES1"
       \/ AdlOfCall = Absent /\ ret.val.nursing_group = "ES2"

----------------------------------------------------------------------------
(* C21: an MA/Commercial per_diem contract pays, for every los >= 1, the   *)
(* sum over the days 1..los of the day's tier rate: the '1-30' rate up to  *)
(* day 30, the '31-60' rate for days 31..60 and the '61-100' rate for      *)
(* every later day, the days beyond 100 included (a tier the contract      *)
(* leaves out is paid at the built-in rate 450, 400 or 375).               *)

PerDiemCall ==
    /\ call.op = "calculate_revenue"
    /\ call.payer_type = "ma_commercial"
    /\ DGet(call.rate_data, "contract_type", "per_diem") = "per_diem"

StatedTier(day_tiers, key, default) ==
    IF key \in DOMAIN day_tiers THEN day_tiers[key] ELSE RInt(default)

\* days of the stay in each tier, times the tier's rate
StatedPerDiemTotal(day_tiers, los) ==
    LET first == Min(los, 30)
        second == Max(0, Min(los, 60) - 30)
        third == Max(0, los - 60)
    IN  RAdd(RAdd(RMul(StatedTier(day_tiers, "1-30", 450), RInt(first)),
                  RMul(StatedTier(day_tiers, "31-60", 400), RInt(second))),
             RMul(StatedTier(day_tiers, "61-100", 375), RInt(third)))

C21_PerDiemTierSum ==
    (PerDiemCall /\ call.los >= 1 /\ ret # NotCalled) =>
        /\ Returned(ret)
        /\ ret.val.total_revenue =
              StatedPerDiemTotal(DGet(call.rate_data, "day_tiers", DEFAULT_DAY_TIERS), call.los)
        /\ ret.val.per_diem_rate = RDiv(ret.val.total_revenue, RInt(call.los))

\* a 120-day stay under the seeded tiers: 30 x 450 + 30 x 400 + 60 x 375 = 48,000
C21_Witness ==
    /\ PerDiemCall
    /\ call.los = 120
    /\ "day_tiers" \in DOMAIN call.rate_data
    /\ DOMAIN call.rate_data.day_tiers = {"1-30", "31-60", "61-100"}
    /\ call.rate_data.day_tiers["1-30"] = RInt(450)
    /\ Returned(ret)
    /\ ret.val.total_revenue = RInt(48000)

----------------------------------------------------------------------------
(* C22: an MA/Commercial pdpm_mapped contract pays the contract multiplier *)
(* times the Medicare-FFS total of the same groups, rates and los at       *)
(* wage_index = 1.0 and vbp_multiplier = 1.0, and the result is the same   *)
(* whatever wage_index and vbp_multiplier the facility data passed to      *)
(* calculate_revenue carries.                                              *)

PdpmMappedCall ==
    /\ call.op = "calculate_revenue"
    /\ call.payer_type = "ma_commercial"
    /\ DGet(call.rate_data, "contract_type", "per_diem") = "pdpm_mapped"

\* the Medicare-FFS calculation of the call's groups, rates and los
MedicareAt(wage_index, vbp_multiplier) ==
    calculate_medicare_ffs(tables, call.pdpm_groups, call.rate_data, call.los,
                           wage_index, vbp_multiplier)

ContractMultiplier ==
    IF "pdpm_multiplier" \in DOMAIN call.rate_data THEN call.rate_data.pdpm_multiplier
    ELSE Rat(95, 100)

C22_PdpmMappedIgnoresFacility ==
    (PdpmMappedCall /\ ret # NotCalled) =>
        /\ Returned(ret) <=> Returned(MedicareAt(RInt(1), RInt(1)))
        /\ Returned(ret) =>
              ret.val.total_revenue =
                  RMul(ContractMultiplier, MedicareAt(RInt(1), RInt(1)).val.total_revenue)
        /\ \A f \in FacilityData :
              calculate_revenue(tables, call.payer_type, call.rate_data, call.pdpm_groups,
                                call.los, f) = ret

\* a pdpm_mapped call from a facility whose wage index and VBP multiplier would
\* change a Medicare-FFS total
C22_Witness ==
    /\ PdpmMappedCall
    /\ call.facility_data # Null
    /\ "wage_index" \in DOMAIN call.facility_data.v
    /\ "vbp_multiplier" \in DOMAIN call.facility_data.v
    /\ call.los > 20
    /\ Returned(ret)
    /\ RLt(RInt(0), ret.val.total_revenue)
    /\ LET m == MedicareAt(call.facility_data.v.wage_index,
                           call.facility_data.v.vbp_multiplier)
       IN  Returned(m) /\ m.val.total_revenue # ret.val.base_medicare_revenue

----------------------------------------------------------------------------
(* C23: calculate_family_care_wi returns total_revenue = (nursing_rate +   *)
(* nta_rate) x los and per_diem_rate = total_revenue / los, where          *)
(* nursing_rate is the nursing-matrix entry of the nursing group, or the   *)
(* fixed fallback 275.00 when the matrix has no entry for the group, and   *)
(* nta_rate is taken from bracket '0-5' for an nta_score of 0..5, '6-11'   *)
(* for 6..11 and '12+' for 12 and more. Checked for every los other than   *)
(* zero, where total_revenue / los has no value.                           *)

FamilyCareCall ==
    /\ call.op = "calculate_revenue"
    /\ call.payer_type = "family_care_wi"

StatedBracket(nta_score) ==
    CASE nta_score \in 0..5 -> "0-5"
      [] nta_score \in 6..11 -> "6-11"
      [] nta_score >= 12 -> "12+"

\* the built-in rate of a bracket the matrix leaves out
BuiltInBracketRate(bracket) ==
    CASE bracket = "0-5" -> RInt(70)
      [] bracket = "6-11" -> RInt(85)
      [] bracket = "12+" -> RInt(100)

StatedNursingRate ==
    LET matrix == IF "nursing_matrix" \in DOMAIN call.rate_data
                  THEN call.rate_data.nursing_matrix ELSE EmptyDict
        group == IF "nursing_group" \in DOMAIN call.pdpm_groups
                 THEN call.pdpm_groups.nursing_group ELSE "LBS2"
    IN  IF group \in DOMAIN matrix THEN matrix[group] ELSE Rat(27500, 100)

StatedNtaRate ==
    LET matrix == IF "nta_matrix" \in DOMAIN call.rate_data
                  THEN call.rate_data.nta_matrix ELSE EmptyDict
        bracket == StatedBracket(call.pdpm_groups.nta_score)
    IN  IF bracket \in DOMAIN matrix THEN matrix[bracket] ELSE BuiltInBracketRate(bracket)

C23_FamilyCareMatrixLookup ==
    (FamilyCareCall /\ call.los # 0 /\ ret # NotCalled) =>
        /\ Returned(ret)
        /\ ret.val.total_revenue =
              RMul(RAdd(StatedNursingRate, StatedNtaRate), RInt(call.los))
        /\ ret.val.per_diem_rate = RDiv(ret.val.total_revenue, RInt(call.los))

\* a group the matrix does not hold, priced at the fallback, with a score on the
\* lower edge of the '6-11' bracket
C23_Witness ==
    /\ FamilyCareCall
    /\ call.pdpm_groups.nursing_group = "CBC1"
    /\ call.pdpm_groups.nta_score = 6
    /\ "nursing_matrix" \in DOMAIN call.rate_data
    /\ call.rate_data.nursing_matrix.HBS2 # RInt(275)
    /\ call.los = 10
    /\ Returned(ret)
    /\ ret.val.total_revenue = RInt((275 + 80) * 10)

----------------------------------------------------------------------------
(* C24: estimate_denial_loss takes denial_probability from the fixed       *)
(* {payer_type: {auth_status: probability}} table and uses the constant    *)
(* 0.25 for every (payer_type, auth_status) combination the table does not *)
(* hold; expected_denial_loss = projected_revenue x denial_probability x   *)
(* 0.30; and for each payer type the probability for 'granted' is at most  *)
(* that for 'pending', which is at most that for 'unknown'.                *)

\* the table of the specification, in hundredths
StatedDenialRisk(payer_type, auth_status) ==
    CASE payer_type = "medicare_ffs" /\ auth_status = "granted" -> 2
      [] payer_type = "medicare_ffs" /\ auth_status = "pending" -> 15
      [] payer_type = "medicare_ffs" /\ auth_status = "unknown" -> 25
      [] payer_type = "ma_commercial" /\ auth_status = "granted" -> 5
      [] payer_type = "ma_commercial" /\ auth_status = "pending" -> 20
      [] payer_type = "ma_commercial" /\ auth_status = "unknown" -> 35
      [] payer_type = "medicaid_wi" /\ auth_status = "granted" -> 3
      [] payer_type = "medicaid_wi" /\ auth_status = "pending" -> 10
      [] payer_type = "medicaid_wi" /\ auth_status = "unknown" -> 15
      [] payer_type = "family_care_wi" /\ auth_status = "granted" -> 3
      [] payer_type = "family_care_wi" /\ auth_status = "pending" -> 12
      [] payer_type = "family_care_wi" /\ auth_status = "unknown" -> 18
      [] OTHER -> 25

\* the probability the estimator uses for a payer type and a status, the revenue
\* of the call in hand
ProbabilityFor(payer_type, auth_status) ==
    estimate_denial_loss(tables, call.projected_revenue, payer_type,
                         auth_status).denial_probability

C24_DenialRiskLookup ==
    CostReturned =>
        LET denial == ret.val.denial_risk
        IN  /\ denial.denial_probability =
                  Rat(StatedDenialRisk(call.payer_type, call.auth_status), 100)
            /\ denial.expected_denial_loss =
                  RMul(call.projected_revenue,
                       RMul(denial.denial_probability, Rat(30, 100)))
            /\ \A p \in CostPayerTypes :
                  /\ RLe(ProbabilityFor(p, "granted"), ProbabilityFor(p, "pending"))
                  /\ RLe(ProbabilityFor(p, "pending"), ProbabilityFor(p, "unknown"))

\* a payer type of the table with a status the table does not hold, priced at 0.25
\* although the payer's own probabilities go up to 0.35
C24_Witness ==
    /\ CostReturned
    /\ call.payer_type = "ma_commercial"
    /\ call.auth_status = "denied"
    /\ call.projected_revenue = RInt(12000)
    /\ ret.val.denial_risk.denial_probability = Rat(1, 4)
    /\ ret.val.denial_risk.expected_denial_loss = RInt(900)

----------------------------------------------------------------------------
(* C25: the transport cost of a cost breakdown is a one-time amount that   *)
(* does not depend on los: 500 for an ambulance transport, 150 for a       *)
(* wheelchair-van transport and 0 when needs_transport is false, and the   *)
(* estimate can produce each of the three values.                          *)

StatedTransportCost(needs_transport, transport_type) ==
    IF ~needs_transport THEN RInt(0)
    ELSE IF transport_type = "ambulance" THEN RInt(500)
    ELSE RInt(150)

C25_TransportCostByType ==
    CostReturned =>
        ret.val.transport_cost = StatedTransportCost(call.needs_transport, call.transport_type)

\* what the estimate does return: 150 for every transport, of whatever kind, and 0
\* without one, for every los; 500 comes only from estimate_transport_cost itself
C25_TransportCostFlat ==
    /\ CostReturned =>
          ret.val.transport_cost = IF call.needs_transport THEN RInt(150) ELSE RInt(0)
    /\ (call.op = "estimate_transport_cost" /\ Returned(ret)) =>
          ret.val = StatedTransportCost(call.needs_transport,
                                        Get(call.transport_type, "wheelchair_van").v)

----------------------------------------------------------------------------
(* C26: the readmit penalty the score computation applies is               *)
(* min(10, 2 x k + h), where k is the number of phrases of the fixed       *)
(* high-risk list that occur in clinical_notes as case-insensitive         *)
(* substrings and h is 5 when the prior-readmission-history flag is set    *)
(* and 0 otherwise; the penalty is always between 0 and 10.                *)

\* the phrases of the list that the notes spell in any casing
MatchedPhrases(notes) ==
    {t \in {"falls risk", "multiple readmissions", "poor compliance", "unstable",
            "acute exacerbation"} : \E o \in notes : o.phrase = t}

StatedReadmitPenalty(notes, has_history) ==
    Min(10, 2 * Cardinality(MatchedPhrases(notes)) + (IF has_history THEN 5 ELSE 0))

ReadmitScored == call.op = "calculate_margin_score" /\ Returned(ret)

C26_ReadmitPenaltyWithHistory ==
    ReadmitScored =>
        LET penalty == ret.val.adjustments.readmit_risk.raw_value
        IN  /\ penalty = RInt(StatedReadmitPenalty(call.clinical_notes.v, call.has_history))
            /\ RLe(RInt(0), penalty)
            /\ RLe(penalty, RInt(10))

\* what the score computation does apply: min(10, 2 x k), whatever the history, in
\* 0..10; the 5 points are added only by calculate_readmit_risk_penalty called with
\* has_history itself
C26_ReadmitPenaltyFromNotes ==
    /\ ReadmitScored =>
          LET penalty == ret.val.adjustments.readmit_risk.raw_value
          IN  /\ penalty = RInt(StatedReadmitPenalty(call.clinical_notes.v, FALSE))
              /\ RLe(RInt(0), penalty)
              /\ RLe(penalty, RInt(10))
    /\ (call.op = "calculate_readmit_risk_penalty" /\ Returned(ret)) =>
          ret.val = StatedReadmitPenalty(call.clinical_notes.v, call.has_history)

----------------------------------------------------------------------------
(* C27: every file saved to storage during a new_admission POST is deleted *)
(* before the request completes, on every path the handler takes after the *)
(* files were saved (success, no extractable data, invalid facility or     *)
(* payer, no rate configured, exception during the calculation), and no    *)
(* persisted admission record keeps a reference to an uploaded file or any *)
(* extracted clinical data.                                                *)

PostCompleted == call.op = "new_admission" /\ ret # NotCalled

C27_SavedFilesStay ==
    PostCompleted =>
        /\ files = {aux.saved_file_paths[k] : k \in 1 .. Len(aux.saved_file_paths)}
        /\ db.admissions = {}

----------------------------------------------------------------------------
(* C28: an account that has accumulated 5 failed attempts is locked for 30 *)
(* minutes; during that period no login creates a session, also when login *)
(* requests for the account are handled concurrently; failed_login_attempts *)
(* returns to 0 only through a successful login or an unlock; the lock     *)
(* lifts by itself once the 30 minutes have passed.                        *)

Account(d) == CHOOSE row \in d.users : row.id = Nurse.id

LockedAt(d, t) == Account(d).locked_until # Null /\ t <= Account(d).locked_until.v

SessionCreated(i) == reqs[i].pc # "logged_in" /\ reqs'[i].pc = "logged_in"

Unlocked == Account(db).locked_until # Null /\ Account(db)'.locked_until = Null

C28_StepRespectsLockout ==
    /\ \A i \in DOMAIN reqs : SessionCreated(i) => ~LockedAt(db, now)
    /\ (Account(db).failed_login_attempts = LOCKOUT_THRESHOLD /\ ~Unlocked) =>
           (Account(db)'.locked_until = Account(db).locked_until
                /\ Account(db).locked_until # Null)
    /\ (Account(db).failed_login_attempts # 0 /\ Account(db)'.failed_login_attempts = 0) =>
           (Unlocked \/ \E i \in DOMAIN reqs : SessionCreated(i))
    /\ Unlocked => now > Account(db).locked_until.v

C28_LockoutHoldsUnderConcurrency == [][C28_StepRespectsLockout]_vars

----------------------------------------------------------------------------
(* C29: a logged-in user is logged out after 15 minutes of inactivity:     *)
(* whenever more than SESSION_TIMEOUT_MINUTES pass between two consecutive *)
(* events of the session (the login or an accepted request), the later     *)
(* request to a protected endpoint does not reach its handler, the session *)
(* is cleared and the user is redirected to the login page; every accepted *)
(* request restarts the idle period.                                       *)

\* the last response answers a protected request sent within a session
ProtectedResponse ==
    /\ call # NotCalled
    /\ call.endpoint = "auth.profile"
    /\ ret.since # NotCalled

IdleMinutes == call.at - ret.since.at

LoggedOut == ret.status = "redirect_login" /\ session = EmptySession

RestartsIdlePeriod ==
    (prev # NotCalled /\ prev.event = "request") =>
        (HasKey(session, "last_activity") /\ fromisoformat(session.last_activity) = prev.at)

C29_IdleSessionLoggedOut ==
    /\ (ProtectedResponse /\ IdleMinutes > SESSION_TIMEOUT_MINUTES) => LoggedOut
    /\ RestartsIdlePeriod

\* what the middleware does: the idle period is measured between accepted requests
\* only; the first protected request after a login is accepted whatever the time
\* since the login, as long as the cookie is within its lifetime
C29_IdleSinceRequestLoggedOut ==
    /\ (ProtectedResponse /\ ret.since.event = "request"
            /\ IdleMinutes > SESSION_TIMEOUT_MINUTES) => LoggedOut
    /\ (ProtectedResponse /\ ret.since.event = "login"
            /\ IdleMinutes <= PERMANENT_SESSION_LIFETIME) => ret.status = "handled"
    /\ RestartsIdlePeriod

----------------------------------------------------------------------------
(* C30: the 'margin' weight has no effect on scoring: two ScoringEngine    *)
(* instances whose weights differ only in weights['margin'] return         *)
(* identical final_score, identical Explanation and identical              *)
(* recommendation for every input, the base margin score entering the      *)
(* final score unweighted.                                                 *)

BothScored == ret # NotCalled /\ prev # NotCalled /\ "other_margin" \in DOMAIN call

DifferInMarginOnly ==
    /\ engine.weights.margin # aux.weights.margin
    /\ DOMAIN engine.weights = DOMAIN aux.weights
    /\ \A k \in DOMAIN engine.weights \ {"margin"} : engine.weights[k] = aux.weights[k]

\* the final score before the clamp, the base score taken as it is
UnweightedTotal(explanation) ==
    RAdd(RAdd(RAdd(RAdd(explanation.base_score,
                        explanation.adjustments.census_factor.weighted_value),
                   explanation.adjustments.denial_risk.weighted_value),
              explanation.adjustments.complexity.weighted_value),
         explanation.adjustments.readmit_risk.weighted_value)

====
